---- MODULE Spec2Model ----
(***************************************************************************)
(* Model of the voxel world runtime: terrain generation, the chunk store,  *)
(* the change log, the streaming pass, block break/place and the debounced *)
(* persistence sync (World.tsx, noise.ts).                                 *)
(*                                                                         *)
(* The world is observed through a finite window of block cells           *)
(* (TrackedXs x TrackedYs x TrackedZs).  generateChunk and                 *)
(* applyChangesToChunk act cell by cell, so a chunk's block array          *)
(* restricted to the window is computed exactly as the code computes it.   *)
(* Chunk coordinates are not restricted.                                   *)
(***************************************************************************)
EXTENDS Integers, Sequences, FiniteSets, TLC

\* ---------------------------------------------------------------- constants
CHUNK_SIZE == 16
RENDER_DISTANCE == 3
MAX_BREAK_DISTANCE == 5
WATER_LEVEL == 12
BASE_HEIGHT == 10
THROTTLE_MS == 250
MAX_INTERACTION_DISTANCE == 5
INTERACTION_COOLDOWN == 250
DOUBLE_FIRE_MS == 1000
MAX_CHUNKS_PER_FRAME == 3
LG_CHECK_DISTANCE == 10
MAX_DISTANCE == 5
RC_INTERACTION_COOLDOWN == 250

\* ------------------------------------------------------------------- bounds
MaxLog == 2            \* longest change log the handlers may build
MaxInitial == 1        \* longest persisted log handed in as initialChanges
MaxCamChunk == 5       \* farthest chunk x the viewpoint travels to
MaxPfLog == 3          \* longest change list handed to applyChangesToChunk
MaxBiTicks == 6        \* clock steps the interaction runs last

TrackedXs == {-1}
TrackedZs == {0}
TrackedYs == 15 .. 16
Columns == TrackedXs \X TrackedZs
NoiseVals == {-10, 0, 10}          \* noise samples, in tenths
FrameSteps == {250}           \* ms between two frames
SelectableTypes == {"stone"}
Faces == 0 .. 5
\* positions are held in tenths of a world unit
POS_SCALE == 10
\* viewpoint positions: the start position, one chunk below, and far east
CamPositions ==
  { <<0, 200, 0>>, <<0, 100, 0>>,
    <<POS_SCALE * CHUNK_SIZE * MaxCamChunk, 100, 0>> }
\* chunk coordinates whose generation may throw: one that is wanted only
\* from the far viewpoint position
FailableChunks == { <<MaxCamChunk + 1, 0, 0>> }
\* the chunk of the tracked cells, part of the first cube
NearFailableChunks == { <<-1, 0, 0>> }

NoTimer == [armed |-> FALSE]

VARIABLES
  noise2D,        \* column -> <<octave1, octave2, octave3>> samples (tenths)
  noise3D,        \* column -> surface sample (tenths)
  terrainGenerator,            \* FALSE = null, TRUE = constructed
  chunks,                      \* rendered collection (array of chunks)
  changes,                     \* the change log
  pendingChanges,              \* queue for the persistence collaborator
  isInitialChunksLoaded,
  loadedChunks,                \* chunk key -> chunk (the store / cache)
  visibleChunks,               \* set of chunk keys
  isChunkGenerationInProgress,
  playerChunkRef,
  camera,                      \* viewpoint position <<x, y, z>>, in tenths
  frameAge,                    \* now - lastFrameTime, saturated at THROTTLE_MS
  changesEffectDue,            \* the changes effect is scheduled by a commit
  initialChanges,              \* prop: the persisted log handed to World
  worldId,                     \* prop: id of the world record
  syncTimer,                   \* debounce timer with its captured batch
  inFlight,                    \* updateWorldChanges calls awaiting an answer
  queuedBase,                  \* log index just before the first queued entry
  received,                    \* batches the persistence collaborator accepted
  pfCoord, pfLog, pfOnce, pfTwice, pfPc,  \* applyChangesToChunk on drawn inputs
  tgSeed,         \* instance -> seed string (character codes) of its constructor
  tgGen,          \* instance -> << >> or <<the TerrainGenerator object>>
  tgCol,          \* the column getHeight is called at
  tgHeights,      \* instance -> the values getHeight returned, in call order
  tgChunk,        \* instance -> << >> or <<the chunk generateChunk returned>>
  tgChange,       \* << >> or <<the change handed to applyChangesToChunk>>
  tgPatched,      \* << >> or <<the chunk applyChangesToChunk returned>>
  mounted,        \* which implementation receives the interaction requests
  dateNow,        \* Date.now(), ms
  targetedBlock,  \* BlockInteraction: << >> or <<[block, face]>>
  lastInteraction,             \* BlockInteraction: lastInteraction.current
  lastActionKey,               \* BlockInteraction: lastActionKey.current
  biCalls,        \* calls of onBreakBlock / onPlaceBlock, with their time
  rcTargetedBlock,             \* raycasting module: targetedBlock
  lastInteractionTime,         \* raycasting module: lastInteractionTime
  rcCalls,        \* calls of onBlockBreak / onBlockPlace, with their time
  plVariant,      \* which Player source runs: "part_000" or "Player.tsx"
  plTerrain,      \* terrainRef: the registered terrain object
  plAt,           \* Math.floor(camera.position.x), as a JavaScript number
  plY,            \* camera.position.y, in tenths
  plVy,           \* velocity.current.y, in tenths per tick
  isGrounded,
  jump,
  plQueried,      \* << >> or <<what the terrain query of the last tick gave>>
  plCompared,     \* << >> or <<the terrainHeight the last tick compared y to>>
  failable,       \* chunk coordinates generateChunk throws for when it likes
  genCalls,       \* coordinates of the generateChunk calls of the last
                  \* effect or pass that ran, in call order
  everFailed,     \* coordinates generateChunk has thrown for
  lgGenerator,    \* legacy World: terrainGenerator, FALSE = null
  lgLoaded,       \* legacy World: loadedChunks, a set of chunk keys
  lgChunks,       \* legacy World: chunks, by their coordinates
  lgInitialLoaded,             \* legacy World: isInitialChunksLoaded
  lgCamera,       \* legacy World: camera.position, in world units
  lastCheckedPosition,         \* legacy World: lastCheckedPosition.current
  lgLock,         \* legacy World: isChunkGenerationInProgress.current
  lgNewChunks,    \* legacy World: newChunks of the last streaming update
  tgtSeen,        \* << >> or <<[pos, hits]>>: the viewpoint and the
                  \* intersections of the last targeting frame
  gmPc,           \* Game: where initGame is
  loading,        \* Game: loading
  error,          \* Game: error, << >> = null
  worldData,      \* Game: worldData, << >> = null
  gmStorage,      \* localStorage 'worldId': << >> or <<id>>
  gmLog,          \* the calls initGame awaited, with how they settled
  dbNow,          \* debounce: milliseconds since the World mounted
  dbDeadline,     \* debounce: when the armed setTimeout is due
  dbLastChange,   \* debounce: when pendingChanges last grew, -1 = never
  dbStarted,      \* debounce: the syncChanges runs started so far
  mvHeights,      \* movement: getHeight of the columns walked over
  mvDelta,        \* movement: the frame delta of this run, ms
  mvX,            \* movement: camera.position.x, in 1/MV_SCALE of a unit
  mvDir,          \* movement: Number(moveRight) - Number(moveLeft)
  mvLast          \* movement: << >> or what the last tick saw and did

worldVars == << noise2D, noise3D, terrainGenerator, chunks, changes,
                isInitialChunksLoaded, loadedChunks, visibleChunks,
                isChunkGenerationInProgress, playerChunkRef, camera,
                frameAge, changesEffectDue, initialChanges, worldId >>
syncVars == << pendingChanges, syncTimer, inFlight, queuedBase, received >>
pfVars == << pfCoord, pfLog, pfOnce, pfTwice, pfPc >>
tgVars == << tgSeed, tgGen, tgCol, tgHeights, tgChunk, tgChange, tgPatched >>
biVars == << mounted, dateNow, targetedBlock, lastInteraction, lastActionKey,
            biCalls, rcTargetedBlock, lastInteractionTime, rcCalls >>
plVars == << plVariant, plTerrain, plAt, plY, plVy, isGrounded, jump,
            plQueried, plCompared >>
genVars == << failable, genCalls, everFailed >>
lgVars == << lgGenerator, lgLoaded, lgChunks, lgInitialLoaded, lgCamera,
            lastCheckedPosition, lgLock, lgNewChunks >>
gmVars == << gmPc, loading, error, worldData, gmStorage, gmLog >>
dbVars == << dbNow, dbDeadline, dbLastChange, dbStarted >>
mvVars == << mvHeights, mvDelta, mvX, mvDir, mvLast >>
soloVars == << dbVars, mvVars >>
otherVars == << plVars, lgVars, tgtSeen, gmVars, soloVars >>
moreVars == << genVars, otherVars >>
vars == << worldVars, syncVars, pfVars, tgVars, biVars, moreVars >>

\* ------------------------------------------------------------------ helpers
Abs(n) == IF n < 0 THEN -n ELSE n
Min(a, b) == IF a <= b THEN a ELSE b
Max(a, b) == IF a >= b THEN a ELSE b
SeqToSet(s) == { s[i] : i \in DOMAIN s }

\* ------------------------------------------------------- terrain generator
\* hashSeed: the 32-bit string hash, as the numerator of the value handed to
\* the noise library (the denominator 2147483647 is fixed).  Seeds are short
\* enough that no intermediate value leaves the 32-bit range, so "& hash"
\* returns its operand.
RECURSIVE HashFrom(_, _)
HashFrom(hash, seed) ==
  IF seed = << >> THEN hash
  ELSE HashFrom(((hash * 32) - hash) + Head(seed), Tail(seed))

hashSeed(seed) == Abs(HashFrom(0, seed))

\* getHeight of a generator whose noise2D is n2d: three octaves, weights as
\* in the code, in hundredths
HeightOf(n2d, x, z) ==
  LET n == n2d[<<x, z>>]
      elevation100 == (7 * n[1] + 70) * 10 + (3 * n[2]) * 5 + (1 * n[3]) * 2
  IN  (elevation100 \div 100) + BASE_HEIGHT

BlockTypeOf(n2d, n3d, x, y, z) ==
  LET terrainHeight == HeightOf(n2d, x, z)
      surfaceNoise == n3d[<<x, z>>]
  IN  IF y > terrainHeight
        THEN IF y <= WATER_LEVEL /\ terrainHeight < WATER_LEVEL
               THEN "water" ELSE "null"
      ELSE IF y = terrainHeight
        THEN IF terrainHeight > 15
               THEN (IF surfaceNoise > 2 THEN "stone" ELSE "grass")
             ELSE IF terrainHeight > 12
               THEN (IF surfaceNoise > 3 THEN "dirt" ELSE "grass")
             ELSE "sand"
      ELSE IF y < terrainHeight - 3 THEN "stone" ELSE "dirt"

\* a set of integers as the sequence a counting loop visits it in
RECURSIVE Ascending(_)
Ascending(S) ==
  IF S = {} THEN << >>
  ELSE LET m == CHOOSE v \in S : \A w \in S : v <= w
       IN  << m >> \o Ascending(S \ {m})

\* the cells of Xs x Ys x Zs in the order of generateChunk's loops: x, then
\* z, then y
CellSeq(Xs, Ys, Zs) ==
  LET xs == Ascending(Xs)
      zs == Ascending(Zs)
      ys == Ascending(Ys)
      nz == Len(zs)
      ny == Len(ys)
  IN  [ i \in 1 .. (Len(xs) * nz * ny) |->
          << xs[((i - 1) \div (nz * ny)) + 1],
             ys[((i - 1) % ny) + 1],
             zs[(((i - 1) \div ny) % nz) + 1] >> ]

WindowSeq == CellSeq(TrackedXs, TrackedYs, TrackedZs)

\* mutant: the loop emits whatever getBlockType returns, without the test
\* against the column height
GenerateChunkIn_noHeightTest(n2d, n3d, cellSeq, chunkX, chunkY, chunkZ, chunkSize) ==
  LET startX == chunkX * chunkSize
      startY == chunkY * chunkSize
      startZ == chunkZ * chunkSize
      InLoops(c) == /\ c[1] - startX \in 0 .. (chunkSize - 1)
                    /\ c[2] - startY \in 0 .. (chunkSize - 1)
                    /\ c[3] - startZ \in 0 .. (chunkSize - 1)
      Emits(c) == /\ InLoops(c)
                  /\ BlockTypeOf(n2d, n3d, c[1], c[2], c[3]) # "null"
      cells == SelectSeq(cellSeq, Emits)
  IN  [ position |-> <<chunkX, chunkY, chunkZ>>,
        blocks |-> [ i \in DOMAIN cells |->
                       [ x |-> cells[i][1], y |-> cells[i][2],
                         z |-> cells[i][3],
                         type |-> BlockTypeOf(n2d, n3d, cells[i][1],
                                              cells[i][2], cells[i][3]) ] ] ]

\* generateChunk of a generator with noise n2d, n3d, restricted to the cells
\* of cellSeq
GenerateChunkIn(n2d, n3d, cellSeq, chunkX, chunkY, chunkZ, chunkSize) ==
  LET startX == chunkX * chunkSize
      startY == chunkY * chunkSize
      startZ == chunkZ * chunkSize
      InLoops(c) == /\ c[1] - startX \in 0 .. (chunkSize - 1)
                    /\ c[2] - startY \in 0 .. (chunkSize - 1)
                    /\ c[3] - startZ \in 0 .. (chunkSize - 1)
      Emits(c) == /\ InLoops(c)
                  /\ c[2] <= Min(HeightOf(n2d, c[1], c[3]), startY + chunkSize)
                  /\ BlockTypeOf(n2d, n3d, c[1], c[2], c[3]) # "null"
      cells == SelectSeq(cellSeq, Emits)
  IN  [ position |-> <<chunkX, chunkY, chunkZ>>,
        blocks |-> [ i \in DOMAIN cells |->
                       [ x |-> cells[i][1], y |-> cells[i][2],
                         z |-> cells[i][3],
                         type |-> BlockTypeOf(n2d, n3d, cells[i][1],
                                              cells[i][2], cells[i][3]) ] ] ]

\* the World's generator (terrainGenerator.current) on the tracked window
GetHeight(x, z) == HeightOf(noise2D, x, z)
GetBlockType(x, y, z) == BlockTypeOf(noise2D, noise3D, x, y, z)
GenerateChunk(chunkX, chunkY, chunkZ, chunkSize) ==
  GenerateChunkIn(noise2D, noise3D, WindowSeq, chunkX, chunkY, chunkZ,
                  chunkSize)

\* ------------------------------------------------------- chunk store helpers
makeBlockKey(x, y, z) == <<x, y, z>>
getChunkKey(x, y, z) == <<x, y, z>>
\* mutant: the quotient is truncated toward zero instead of floored
getChunkCoords_truncated(x, y, z) ==
  LET Trunc(v) == IF v < 0 THEN -((-v) \div CHUNK_SIZE) ELSE v \div CHUNK_SIZE
  IN  << Trunc(x), Trunc(y), Trunc(z) >>

getChunkCoords(x, y, z) ==
  << x \div CHUNK_SIZE, y \div CHUNK_SIZE, z \div CHUNK_SIZE >>
ChunkKeyOf(chunk) ==
  getChunkKey(chunk.position[1], chunk.position[2], chunk.position[3])

\* mutant: set pushes an entry even when the key is already present
MapSet_append(m, key, val) == Append(m, [key |-> key, val |-> val])

\* a JavaScript Map as the sequence of its entries in insertion order
MapSet(m, key, val) ==
  IF \E i \in DOMAIN m : m[i].key = key
    THEN [ i \in DOMAIN m |->
             IF m[i].key = key THEN [key |-> key, val |-> val] ELSE m[i] ]
    ELSE Append(m, [key |-> key, val |-> val])
MapDelete(m, key) == SelectSeq(m, LAMBDA e : e.key # key)
MapValues(m) == [ i \in DOMAIN m |-> m[i].val ]

RECURSIVE MapFromBlocks(_, _)
MapFromBlocks(m, blocks) ==
  IF blocks = << >> THEN m
  ELSE LET b == Head(blocks)
       IN  MapFromBlocks(MapSet(m, makeBlockKey(b.x, b.y, b.z), b),
                         Tail(blocks))

\* mutant: a place is pushed without looking the coordinate up
ApplyOneChange_push(m, change) ==
  LET blockKey == makeBlockKey(change.x, change.y, change.z)
  IN  IF change.action = "remove" THEN MapDelete(m, blockKey)
      ELSE IF change.action = "place"
        THEN Append(m, [ key |-> blockKey,
                         val |-> [ x |-> change.x, y |-> change.y,
                                   z |-> change.z, type |-> change.type ] ])
      ELSE m

ApplyOneChange(m, change) ==
  LET blockKey == makeBlockKey(change.x, change.y, change.z)
  IN  IF change.action = "remove" THEN MapDelete(m, blockKey)
      ELSE IF change.action = "place"
        THEN MapSet(m, blockKey,
                    [ x |-> change.x, y |-> change.y, z |-> change.z,
                      type |-> change.type ])
      ELSE m

RECURSIVE ApplyEach_reversed(_, _)
\* mutant: the changes are applied newest first, so the first write wins
ApplyEach_reversed(m, list) ==
  IF list = << >> THEN m
  ELSE ApplyEach_reversed(ApplyOneChange(m, list[Len(list)]),
                          SubSeq(list, 1, Len(list) - 1))

RECURSIVE ApplyEach(_, _)
ApplyEach(m, list) ==
  IF list = << >> THEN m
  ELSE ApplyEach(ApplyOneChange(m, Head(list)), Tail(list))

ApplyChangesToChunk(chunk, changesList) ==
  LET minX == chunk.position[1] * CHUNK_SIZE
      minY == chunk.position[2] * CHUNK_SIZE
      minZ == chunk.position[3] * CHUNK_SIZE
      maxX == minX + CHUNK_SIZE - 1
      maxY == minY + CHUNK_SIZE - 1
      maxZ == minZ + CHUNK_SIZE - 1
      relevantChanges ==
        SelectSeq(changesList,
                  LAMBDA change : /\ change.x >= minX /\ change.x <= maxX
                                  /\ change.y >= minY /\ change.y <= maxY
                                  /\ change.z >= minZ /\ change.z <= maxZ)
  IN  IF relevantChanges = << >> THEN chunk
      ELSE [ chunk EXCEPT
               !.blocks = MapValues(ApplyEach(MapFromBlocks(<< >>, chunk.blocks),
                                              relevantChanges)) ]

\* ------------------------------------------------------------ World: mount
\* offsets -r..r on each axis in the order of three nested loops (x, y, z)
CubeOffsets(r) ==
  LET n == 2 * r + 1
  IN  [ i \in 1 .. (n * n * n) |->
          << ((i - 1) \div (n * n)) - r,
             (((i - 1) \div n) % n) - r,
             ((i - 1) % n) - r >> ]

KeysAround(center, offsets) ==
  [ i \in DOMAIN offsets |->
      getChunkKey(center[1] + offsets[i][1], center[2] + offsets[i][2],
                  center[3] + offsets[i][3]) ]

RenderedKeys(cs) == { ChunkKeyOf(cs[i]) : i \in DOMAIN cs }

\* the sync effect: its cleanup clears the previous timer, then a new timer
\* capturing the queue is armed unless the queue is empty or worldId is falsy
SyncEffect(queue, base) ==
  IF Len(queue) = 0 \/ worldId = 0 THEN NoTimer
  ELSE [armed |-> TRUE, batch |-> queue, base |-> base]

\* mutant: a coordinate whose generation threw is stored all the same
KeysToLoad_inserted(desiredKeys, failing) ==
  SelectSeq(desiredKeys, LAMBDA k : k \notin DOMAIN loadedChunks)
\* mutant: the store is not consulted
KeysToLoad_all(desiredKeys, failing) ==
  SelectSeq(desiredKeys, LAMBDA k : k \notin failing)

\* the coordinates of a loop over desiredKeys that pass its test
\* !loadedChunks.current.has(chunkKey) and whose generation does not throw
KeysToLoad(desiredKeys, failing) ==
  SelectSeq(desiredKeys,
            LAMBDA k : k \notin DOMAIN loadedChunks /\ k \notin failing)

\* the chunk stored for an initial coordinate; the result of
\* applyChangesToChunk is computed and dropped, the generated chunk is kept
InitialChunk(generated, changesList) ==
  LET applied == ApplyChangesToChunk(generated, changesList)
  IN  generated

\* generateInitialChunks, run from the terrain effect at mount
GenerateInitialChunks(failing) ==
  LET start == << 0 \div CHUNK_SIZE, 20 \div CHUNK_SIZE, 0 \div CHUNK_SIZE >>
      keys == KeysToLoad(KeysAround(start, CubeOffsets(1)), failing)
      initialChunks ==
        [ i \in DOMAIN keys |->
            InitialChunk(GenerateChunk(keys[i][1], keys[i][2], keys[i][3],
                                       CHUNK_SIZE), changes) ]
  IN  /\ ~isInitialChunksLoaded
      /\ playerChunkRef' = start
      /\ loadedChunks' =
           [ k \in DOMAIN loadedChunks \cup SeqToSet(keys) |->
               IF k \in DOMAIN loadedChunks THEN loadedChunks[k]
               ELSE InitialChunk(GenerateChunk(k[1], k[2], k[3], CHUNK_SIZE),
                                 changes) ]
      /\ visibleChunks' = visibleChunks \cup SeqToSet(keys)
      /\ IF Len(initialChunks) > 0
           THEN chunks' = initialChunks /\ isInitialChunksLoaded' = TRUE
           ELSE UNCHANGED << chunks, isInitialChunksLoaded >>

\* the generateChunk calls of a loop over desiredKeys are logged: all that
\* pass the store test, those of failing throw
LogCalls(desiredKeys, failing) ==
  LET called == KeysToLoad(desiredKeys, { })
  IN  /\ genCalls' = [ i \in DOMAIN called |->
                         [ key |-> called[i], threw |-> called[i] \in failing ] ]
      /\ everFailed' = everFailed \cup (SeqToSet(called) \cap failing)

\* the terrain effect; generateChunk throws for the coordinates of failing
TerrainEffectOn(failing) ==
  /\ ~terrainGenerator
  /\ terrainGenerator' = TRUE
  /\ GenerateInitialChunks(failing)
  /\ changesEffectDue' = TRUE
  /\ UNCHANGED << noise2D, noise3D, changes, isChunkGenerationInProgress,
                  camera, frameAge, initialChanges, worldId >>
  /\ UNCHANGED << syncVars, pfVars, tgVars, biVars, failable, otherVars >>

TerrainEffect ==
  /\ \E failing \in SUBSET failable : TerrainEffectOn(failing)
  /\ UNCHANGED << genCalls, everFailed >>

\* the terrain effect with its generateChunk calls logged
TerrainEffectLogged ==
  \E failing \in SUBSET failable :
    /\ TerrainEffectOn(failing)
    /\ LogCalls(KeysAround(<< 0 \div CHUNK_SIZE, 20 \div CHUNK_SIZE,
                              0 \div CHUNK_SIZE >>, CubeOffsets(1)), failing)

\* ---------------------------------------------------- World: changes effect
RECURSIVE GroupKeys(_, _)
\* keys of the chunkChanges Map, in insertion order
GroupKeys(list, seen) ==
  IF list = << >> THEN seen
  ELSE LET c == Head(list)
           k == getChunkCoords(c.x, c.y, c.z)
       IN  GroupKeys(Tail(list),
                     IF \E i \in DOMAIN seen : seen[i] = k THEN seen
                     ELSE Append(seen, k))

ChangesForChunk(list, chunkKey) ==
  SelectSeq(list, LAMBDA c : getChunkCoords(c.x, c.y, c.z) = chunkKey)

\* setChunks of the changes effect: drop the replaced entries, append the new
ReplaceChunks(prevChunks, chunksNeedingUpdate) ==
  LET chunksToUpdate == RenderedKeys(chunksNeedingUpdate)
  IN  SelectSeq(prevChunks, LAMBDA c : ChunkKeyOf(c) \notin chunksToUpdate)
        \o chunksNeedingUpdate

\* the coordinates the changes effect visits, and of those the ones it
\* generates on demand: not in the store, but visible
EffectKeys == GroupKeys(changes, << >>)
OnDemand(k) ==
  k \notin DOMAIN loadedChunks /\ k \in visibleChunks /\ terrainGenerator
\* generateChunk is not in a try block here: the first throw ends the effect
FirstThrown(failing) ==
  LET thrown == { i \in DOMAIN EffectKeys :
                    OnDemand(EffectKeys[i]) /\ EffectKeys[i] \in failing }
  IN  IF thrown = { } THEN Len(EffectKeys) + 1
      ELSE CHOOSE i \in thrown : \A t \in thrown : i <= t

\* the changes effect; generateChunk throws for the coordinates of failing
ChangesEffectOn(failing) ==
  /\ changesEffectDue
  /\ changesEffectDue' = FALSE
  /\ IF Len(changes) = 0 \/ ~isInitialChunksLoaded
       THEN UNCHANGED << loadedChunks, chunks >>
       ELSE
         LET keys == SubSeq(EffectKeys, 1, FirstThrown(failing) - 1)
             Loaded(k) == k \in DOMAIN loadedChunks
             Touched(k) == Loaded(k) \/ OnDemand(k)
             Updated(k) ==
               IF Loaded(k)
                 THEN ApplyChangesToChunk(loadedChunks[k],
                                          ChangesForChunk(changes, k))
                 ELSE ApplyChangesToChunk(
                        GenerateChunk(k[1], k[2], k[3], CHUNK_SIZE),
                        ChangesForChunk(changes, k))
             updateKeys == SelectSeq(keys, LAMBDA k : Touched(k)
                                                      /\ k \in visibleChunks)
             chunksNeedingUpdate == [ i \in DOMAIN updateKeys |->
                                        Updated(updateKeys[i]) ]
         IN  /\ loadedChunks' =
                  [ k \in { q \in SeqToSet(keys) : Touched(q) } |-> Updated(k) ]
                    @@ loadedChunks
             /\ chunks' = IF FirstThrown(failing) > Len(EffectKeys)
                               /\ Len(chunksNeedingUpdate) > 0
                            THEN ReplaceChunks(chunks, chunksNeedingUpdate)
                            ELSE chunks
  /\ UNCHANGED << noise2D, noise3D, terrainGenerator, changes,
                  isInitialChunksLoaded, visibleChunks,
                  isChunkGenerationInProgress, playerChunkRef, camera,
                  frameAge, initialChanges, worldId >>
  /\ UNCHANGED << syncVars, pfVars, tgVars, biVars, failable, otherVars >>

ChangesEffect ==
  /\ \E failing \in SUBSET failable : ChangesEffectOn(failing)
  /\ UNCHANGED << genCalls, everFailed >>

\* the changes effect with its generateChunk calls logged
ChangesEffectLogged ==
  \E failing \in SUBSET failable :
    /\ ChangesEffectOn(failing)
    /\ IF Len(changes) = 0 \/ ~isInitialChunksLoaded
         THEN UNCHANGED << genCalls, everFailed >>
         ELSE LET last == Min(FirstThrown(failing), Len(EffectKeys))
                  called == SelectSeq(SubSeq(EffectKeys, 1, last), OnDemand)
              IN  /\ genCalls' =
                       [ i \in DOMAIN called |->
                           [ key |-> called[i], threw |-> called[i] \in failing ] ]
                  /\ everFailed' =
                       everFailed
                         \cup { EffectKeys[i] :
                                  i \in DOMAIN EffectKeys
                                          \cap {FirstThrown(failing)} }

\* ------------------------------------------------------ World: streaming pass
\* mutant: the distance test without the 1.5 extension
VisibleOffsets_noExtension ==
  SelectSeq(CubeOffsets(RENDER_DISTANCE),
            LAMBDA o : ~(Abs(o[1]) + Abs(o[2]) + Abs(o[3]) > RENDER_DISTANCE))

\* offsets kept by the distance test: skipped when distance > RENDER_DISTANCE * 1.5
VisibleOffsets ==
  SelectSeq(CubeOffsets(RENDER_DISTANCE),
            LAMBDA o : ~(2 * (Abs(o[1]) + Abs(o[2]) + Abs(o[3]))
                           > 3 * RENDER_DISTANCE))

\* mutant: the unloaded entries are not filtered out
RemainingChunks_keepAll(prevChunks, chunksToUnload) == prevChunks

\* setChunks of the streaming pass: drop unloaded entries, append the new
RemainingChunks(prevChunks, chunksToUnload) ==
  SelectSeq(prevChunks, LAMBDA c : ChunkKeyOf(c) \notin chunksToUnload)

\* the chunk a pass generates for a coordinate missing from the store
LoadChunk(k) ==
  ApplyChangesToChunk(GenerateChunk(k[1], k[2], k[3], CHUNK_SIZE), changes)

\* Math.floor of a coordinate held in tenths
Floor(v) == v \div POS_SCALE

\* getChunkCoords(camera.position): floor(v / CHUNK_SIZE) of each coordinate
CameraChunk ==
  << camera[1] \div (POS_SCALE * CHUNK_SIZE),
     camera[2] \div (POS_SCALE * CHUNK_SIZE),
     camera[3] \div (POS_SCALE * CHUNK_SIZE) >>

FrameGate ==
  /\ terrainGenerator
  /\ isInitialChunksLoaded
  /\ ~isChunkGenerationInProgress
  /\ ~(frameAge < THROTTLE_MS)

\* a frame that passes the throttle and finds the player in the same chunk
UseFrameSameChunk ==
  /\ FrameGate
  /\ CameraChunk = playerChunkRef
  /\ frameAge' = 0
  /\ UNCHANGED << noise2D, noise3D, terrainGenerator, chunks, changes,
                  isInitialChunksLoaded, loadedChunks, visibleChunks,
                  isChunkGenerationInProgress, playerChunkRef, camera,
                  changesEffectDue, initialChanges, worldId >>
  /\ UNCHANGED << syncVars, pfVars, tgVars, biVars, moreVars >>

\* mutant: the pass runs on every frame that gets past the throttle
StreamingPassOn_always(failing) ==
  /\ FrameGate
  /\ frameAge' = 0
  /\   LET currentChunk == CameraChunk
           desiredKeys == KeysAround(currentChunk, VisibleOffsets)
           newVisibleChunks == SeqToSet(desiredKeys)
           keysToLoad == KeysToLoad(desiredKeys, failing)
           chunksToLoad == [ i \in DOMAIN keysToLoad |-> LoadChunk(keysToLoad[i]) ]
           chunksToUnload == visibleChunks \ newVisibleChunks
       IN  /\ playerChunkRef' = currentChunk
           /\ loadedChunks' =
                loadedChunks @@ [ k \in SeqToSet(keysToLoad) |-> LoadChunk(k) ]
           /\ visibleChunks' = newVisibleChunks
           /\ chunks' = IF Len(chunksToLoad) > 0 \/ chunksToUnload # {}
                          THEN RemainingChunks(chunks, chunksToUnload)
                                 \o chunksToLoad
                          ELSE chunks
  /\ isChunkGenerationInProgress' = FALSE
  /\ UNCHANGED << noise2D, noise3D, terrainGenerator, changes,
                  isInitialChunksLoaded, camera, changesEffectDue,
                  initialChanges, worldId >>
  /\ UNCHANGED << syncVars, pfVars, tgVars, biVars, failable, otherVars >>

\* a frame that finds the player in a new chunk: the streaming pass
\* a streaming pass; generateChunk throws for the coordinates of failing
StreamingPassOn(failing) ==
  /\ FrameGate
  /\ CameraChunk # playerChunkRef
  /\ frameAge' = 0
  /\   LET currentChunk == CameraChunk
           desiredKeys == KeysAround(currentChunk, VisibleOffsets)
           newVisibleChunks == SeqToSet(desiredKeys)
           keysToLoad == KeysToLoad(desiredKeys, failing)
           chunksToLoad == [ i \in DOMAIN keysToLoad |-> LoadChunk(keysToLoad[i]) ]
           chunksToUnload == visibleChunks \ newVisibleChunks
       IN  /\ playerChunkRef' = currentChunk
           /\ loadedChunks' =
                loadedChunks @@ [ k \in SeqToSet(keysToLoad) |-> LoadChunk(k) ]
           /\ visibleChunks' = newVisibleChunks
           /\ chunks' = IF Len(chunksToLoad) > 0 \/ chunksToUnload # {}
                          THEN RemainingChunks(chunks, chunksToUnload)
                                 \o chunksToLoad
                          ELSE chunks
  /\ isChunkGenerationInProgress' = FALSE
  /\ UNCHANGED << noise2D, noise3D, terrainGenerator, changes,
                  isInitialChunksLoaded, camera, changesEffectDue,
                  initialChanges, worldId >>
  /\ UNCHANGED << syncVars, pfVars, tgVars, biVars, failable, otherVars >>

StreamingPass ==
  /\ \E failing \in SUBSET failable : StreamingPassOn(failing)
  /\ UNCHANGED << genCalls, everFailed >>

\* a streaming pass with its generateChunk calls logged
StreamingPassLogged ==
  \E failing \in SUBSET failable :
    /\ StreamingPassOn(failing)
    /\ LogCalls(KeysAround(CameraChunk, VisibleOffsets), failing)

\* time passes between frames
Tick ==
  /\ \E dt \in FrameSteps : frameAge' = Min(frameAge + dt, THROTTLE_MS)
  /\ frameAge' # frameAge
  /\ UNCHANGED << noise2D, noise3D, terrainGenerator, chunks, changes,
                  isInitialChunksLoaded, loadedChunks, visibleChunks,
                  isChunkGenerationInProgress, playerChunkRef, camera,
                  changesEffectDue, initialChanges, worldId >>
  /\ UNCHANGED << syncVars, pfVars, tgVars, biVars, moreVars >>

\* the movement system moves the viewpoint
MoveCamera ==
  /\ terrainGenerator
  /\ \E p \in CamPositions : p # camera /\ camera' = p
  /\ UNCHANGED << noise2D, noise3D, terrainGenerator, chunks, changes,
                  isInitialChunksLoaded, loadedChunks, visibleChunks,
                  isChunkGenerationInProgress, playerChunkRef, frameAge,
                  changesEffectDue, initialChanges, worldId >>
  /\ UNCHANGED << syncVars, pfVars, tgVars, biVars, moreVars >>

\* ------------------------------------------------------- World: break / place
TrackedCells == { <<x, y, z>> : x \in TrackedXs, y \in TrackedYs, z \in TrackedZs }

\* blocks the renderer offers for hit-testing
RenderedBlocks ==
  UNION { SeqToSet(chunks[i].blocks) : i \in DOMAIN chunks }

\* squared distance from the viewpoint to the centre of the block (the block
\* coordinate plus 0.5), in squared tenths
DistanceSq(pos, block) ==
  LET d(a, b) == POS_SCALE * b + (POS_SCALE \div 2) - a
  IN  d(pos[1], block.x) * d(pos[1], block.x)
      + d(pos[2], block.y) * d(pos[2], block.y)
      + d(pos[3], block.z) * d(pos[3], block.z)

\* distance > limit
Beyond(pos, block, limit) ==
  DistanceSq(pos, block) > (POS_SCALE * limit) * (POS_SCALE * limit)

\* mutant: the distance test never rejects
TooFar_never(pos, block) == FALSE

TooFar(pos, block) == Beyond(pos, block, MAX_BREAK_DISTANCE)

faceDirections ==
  << <<1, 0, 0>>, <<-1, 0, 0>>, <<0, 1, 0>>, <<0, -1, 0>>,
     <<0, 0, 1>>, <<0, 0, -1>> >>

\* mutant: the new entry is put in front of the log
AppendChange_prepend(change) ==
  /\ changes' = << change >> \o changes
  /\ pendingChanges' = Append(pendingChanges, change)
  /\ changesEffectDue' = TRUE
  /\ syncTimer' = SyncEffect(Append(pendingChanges, change), queuedBase)
  /\ UNCHANGED << inFlight, queuedBase, received >>

\* setChanges / setPendingChanges of an accepted request, the commit that
\* follows, and the sync effect re-run by that commit
AppendChange(change) ==
  /\ changes' = Append(changes, change)
  /\ pendingChanges' = Append(pendingChanges, change)
  /\ changesEffectDue' = TRUE
  /\ syncTimer' = SyncEffect(Append(pendingChanges, change), queuedBase)
  /\ UNCHANGED << inFlight, queuedBase, received >>

HandleBlockClick ==
  /\ ~changesEffectDue
  /\ Len(changes) < MaxLog
  /\ \E block \in RenderedBlocks, face \in Faces :
       /\ ~TooFar(camera, block)
       /\ AppendChange([ x |-> block.x, y |-> block.y, z |-> block.z,
                         type |-> block.type, action |-> "remove" ])
  /\ UNCHANGED << noise2D, noise3D, terrainGenerator, chunks,
                  isInitialChunksLoaded, loadedChunks, visibleChunks,
                  isChunkGenerationInProgress, playerChunkRef, camera,
                  frameAge, initialChanges, worldId >>
  /\ UNCHANGED << pfVars, tgVars, biVars, moreVars >>

\* mutant: materialized chunks are not consulted
BlockExists_never(newPosition) == FALSE

\* the three rejection tests of handleBlockRightClick
BlockExists(newPosition) ==
  \E k \in DOMAIN loadedChunks :
    \E i \in DOMAIN loadedChunks[k].blocks :
      LET b == loadedChunks[k].blocks[i]
      IN  b.x = newPosition[1] /\ b.y = newPosition[2] /\ b.z = newPosition[3]

PendingBlockExists(newPosition) ==
  \E i \in DOMAIN changes :
    /\ changes[i].action = "place"
    /\ changes[i].x = newPosition[1]
    /\ changes[i].y = newPosition[2]
    /\ changes[i].z = newPosition[3]
    /\ ~ \E j \in DOMAIN changes :
           /\ changes[j].action = "remove"
           /\ changes[j].x = newPosition[1]
           /\ changes[j].y = newPosition[2]
           /\ changes[j].z = newPosition[3]
           /\ j > i

WouldBlockPlayer(newPosition) ==
  LET playerPosition == << Floor(camera[1]), Floor(camera[2]),
                           Floor(camera[3]) >>
  IN  \/ newPosition = playerPosition
      \/ newPosition = << playerPosition[1], playerPosition[2] + 1,
                          playerPosition[3] >>

HandleBlockRightClick ==
  /\ ~changesEffectDue
  /\ Len(changes) < MaxLog
  /\ \E block \in RenderedBlocks, face \in Faces,
        selectedBlock \in SelectableTypes :
       LET validFace == Min(Max(0, face), 5)
           dir == faceDirections[validFace + 1]
           newPosition == << block.x + dir[1], block.y + dir[2],
                             block.z + dir[3] >>
       IN  /\ newPosition \in TrackedCells
           /\ ~BlockExists(newPosition)
           /\ ~PendingBlockExists(newPosition)
           /\ ~WouldBlockPlayer(newPosition)
           /\ AppendChange([ x |-> newPosition[1], y |-> newPosition[2],
                             z |-> newPosition[3], type |-> selectedBlock,
                             action |-> "place" ])
  /\ UNCHANGED << noise2D, noise3D, terrainGenerator, chunks,
                  isInitialChunksLoaded, loadedChunks, visibleChunks,
                  isChunkGenerationInProgress, playerChunkRef, camera,
                  frameAge, initialChanges, worldId >>
  /\ UNCHANGED << pfVars, tgVars, biVars, moreVars >>

\* ------------------------------------------------------------ World: sync
\* the debounce timer fires: syncChanges starts with the captured batch
TimerFiresStep ==
  /\ syncTimer.armed
  /\ inFlight' = inFlight \cup { [batch |-> syncTimer.batch,
                                   base |-> syncTimer.base] }
  /\ syncTimer' = NoTimer
  /\ UNCHANGED << pendingChanges, queuedBase, received >>

TimerFires ==
  /\ TimerFiresStep
  /\ UNCHANGED << worldVars, pfVars, tgVars, biVars, moreVars >>

\* updateWorldChanges resolves: setPendingChanges([]) and the effect re-run
SyncSucceedsStep ==
  /\ \E r \in inFlight :
       /\ inFlight' = inFlight \ {r}
       /\ received' = Append(received, r)
  /\ pendingChanges' = << >>
  /\ queuedBase' = Len(changes)
  /\ syncTimer' = SyncEffect(<< >>, Len(changes))

SyncSucceeds ==
  /\ SyncSucceedsStep
  /\ UNCHANGED << worldVars, pfVars, tgVars, biVars, moreVars >>

\* mutant: the queue is cleared whatever the outcome
SyncFails_clears ==
  /\ \E r \in inFlight : inFlight' = inFlight \ {r}
  /\ pendingChanges' = << >>
  /\ queuedBase' = Len(changes)
  /\ syncTimer' = SyncEffect(<< >>, Len(changes))
  /\ UNCHANGED received
  /\ UNCHANGED << worldVars, pfVars, tgVars, biVars, moreVars >>

\* updateWorldChanges rejects: the catch block logs and nothing is set
SyncFailsStep ==
  /\ \E r \in inFlight : inFlight' = inFlight \ {r}
  /\ UNCHANGED << pendingChanges, queuedBase, received, syncTimer >>

SyncFails ==
  /\ SyncFailsStep
  /\ UNCHANGED << worldVars, pfVars, tgVars, biVars, moreVars >>

\* ------------------------------------------------------------- specifications
RECURSIVE SeqsUpTo(_, _)
\* all sequences over S of length at most n
SeqsUpTo(S, n) ==
  IF n = 0 THEN { << >> }
  ELSE LET shorter == SeqsUpTo(S, n - 1)
       IN  shorter \cup { Append(q, e) : q \in shorter, e \in S }

\* changes a persisted log may hold at the tracked cells
ChangeAlphabet ==
  { [ x |-> c[1], y |-> c[2], z |-> c[3], type |-> t, action |-> "place" ] :
      c \in TrackedCells, t \in SelectableTypes }
  \cup
  { [ x |-> c[1], y |-> c[2], z |-> c[3], type |-> "dirt", action |-> "remove" ] :
      c \in TrackedCells }

\* terrain of the world runs: the tracked column has height 15
WorldTerrains == { [ c \in Columns |-> << 0, -10, 0 >> ] }

PfIdle ==
  /\ pfCoord = << 0, 0, 0 >>
  /\ pfLog = << >>
  /\ pfOnce = << >>
  /\ pfTwice = << >>
  /\ pfPc = "off"

TgInsts == {"A", "B"}
TgIdle ==
  /\ tgSeed = [ i \in TgInsts |-> << >> ]
  /\ tgGen = [ i \in TgInsts |-> << >> ]
  /\ tgCol = << 0, 0 >>
  /\ tgHeights = [ i \in TgInsts |-> << >> ]
  /\ tgChunk = [ i \in TgInsts |-> << >> ]
  /\ tgChange = << >>
  /\ tgPatched = << >>

\* Date.now() when the interaction handlers are mounted, and the clock step
BiEpoch == 1000
BiTick == 125

\* no interaction request has been made
BiUnused ==
  /\ dateNow = BiEpoch
  /\ targetedBlock = << >>
  /\ lastInteraction = 0
  /\ lastActionKey = << >>
  /\ biCalls = << >>
  /\ rcTargetedBlock = << >>
  /\ lastInteractionTime = 0
  /\ rcCalls = << >>

\* clicks on block meshes go to World
BiIdle == mounted = "World" /\ BiUnused

\* JavaScript numbers: a finite value, NaN or an infinity; Thrown stands for a
\* call that throws instead of returning
Num(n) == [ kind |-> "number", v |-> n ]
NaN == [ kind |-> "NaN", v |-> 0 ]
Infinity == [ kind |-> "Infinity", v |-> 0 ]
Thrown == [ kind |-> "throw", v |-> 0 ]
\* what noise2D gives at a column: three samples, or a failure of one of them
Samples(t) == [ kind |-> "number", v |-> t ]
NoSamples(kind) == [ kind |-> kind, v |-> << 0, 0, 0 >> ]
\* terrainRef before setTerrainReference is called
NoTerrain == [ impl |-> "null", sample |-> NoSamples("NaN"), result |-> NaN ]

\* the Player component is not mounted
PlIdle ==
  /\ plVariant = "Player.tsx"
  /\ plTerrain = NoTerrain
  /\ plAt = Num(0)
  /\ plY = 200
  /\ plVy = 0
  /\ isGrounded = FALSE
  /\ jump = FALSE
  /\ plQueried = << >>
  /\ plCompared = << >>

\* the legacy World component after construction
LgIdle ==
  /\ lgGenerator = FALSE
  /\ lgLoaded = { }
  /\ lgChunks = << >>
  /\ lgInitialLoaded = FALSE
  /\ lgCamera = << 0, 20, 0 >>
  /\ lastCheckedPosition = << 0, 0, 0 >>
  /\ lgLock = FALSE
  /\ lgNewChunks = << >>

\* the Game component after construction, nothing stored
GmIdle ==
  /\ gmPc = "mounted"
  /\ loading = TRUE
  /\ error = << >>
  /\ worldData = << >>
  /\ gmStorage = << >>
  /\ gmLog = << >>

\* no change has been timed
DbIdle ==
  /\ dbNow = 0
  /\ dbDeadline = 0
  /\ dbLastChange = -1
  /\ dbStarted = { }

\* no movement key has been pressed
MvIdle ==
  /\ mvHeights = << >>
  /\ mvDelta = 0
  /\ mvX = 0
  /\ mvDir = 0
  /\ mvLast = << >>

SoloIdle == DbIdle /\ MvIdle

OtherIdle == PlIdle /\ LgIdle /\ tgtSeen = << >> /\ GmIdle /\ SoloIdle

\* generateChunk has not been called
GenUnused == genCalls = << >> /\ everFailed = { }

MoreIdle == failable = FailableChunks /\ GenUnused /\ OtherIdle

\* the World component after construction, before its effects have run
WorldConstructed ==
  /\ noise3D = [ c \in Columns |-> 0 ]
  /\ terrainGenerator = FALSE
  /\ chunks = << >>
  /\ changes = initialChanges
  /\ pendingChanges = << >>
  /\ isInitialChunksLoaded = FALSE
  /\ loadedChunks = << >>
  /\ visibleChunks = {}
  /\ isChunkGenerationInProgress = FALSE
  /\ playerChunkRef = << 0, 0, 0 >>
  /\ camera = << 0, 200, 0 >>
  /\ frameAge = 0
  /\ changesEffectDue = FALSE
  /\ worldId = 1
  /\ syncTimer = NoTimer
  /\ inFlight = {}
  /\ queuedBase = Len(initialChanges)
  /\ received = << >>

WorldInit ==
  /\ noise2D \in WorldTerrains
  /\ initialChanges \in SeqsUpTo(ChangeAlphabet, MaxInitial)
  /\ WorldConstructed
  /\ PfIdle
  /\ TgIdle
  /\ BiIdle
  /\ MoreIdle

WorldNext ==
  \/ TerrainEffect
  \/ ChangesEffect
  \/ UseFrameSameChunk
  \/ StreamingPass
  \/ Tick
  \/ MoveCamera
  \/ HandleBlockClick
  \/ HandleBlockRightClick

Spec == WorldInit /\ [][WorldNext]_vars

\* chunk streaming on its own, every generateChunk call logged; the
\* coordinate whose generation may throw is the far one or one of the first cube
StreamInit ==
  /\ noise2D \in WorldTerrains
  /\ initialChanges \in { << >> } \cup { << c >> : c \in ChangeAlphabet }
  /\ WorldConstructed
  /\ PfIdle
  /\ TgIdle
  /\ BiIdle
  /\ failable \in { FailableChunks, NearFailableChunks }
  /\ GenUnused
  /\ OtherIdle

StreamNext ==
  \/ TerrainEffectLogged
  \/ ChangesEffectLogged
  \/ UseFrameSameChunk
  \/ StreamingPassLogged
  \/ Tick
  \/ MoveCamera

StreamSpec == StreamInit /\ [][StreamNext]_vars

\* the persistence sync with the viewpoint at rest
SyncInit ==
  /\ noise2D \in WorldTerrains
  /\ initialChanges \in SeqsUpTo(ChangeAlphabet, MaxInitial)
  /\ WorldConstructed
  /\ PfIdle
  /\ TgIdle
  /\ BiIdle
  /\ MoreIdle

SyncNext ==
  \/ TerrainEffect
  \/ ChangesEffect
  \/ HandleBlockClick
  \/ HandleBlockRightClick
  \/ TimerFires
  \/ SyncSucceeds
  \/ SyncFails

SyncSpec == SyncInit /\ [][SyncNext]_vars

\* timers fire and requests are answered; a request that is answered again
\* and again is eventually answered with success
SyncFairSpec ==
  /\ SyncSpec
  /\ WF_vars(TerrainEffect)
  /\ WF_vars(ChangesEffect)
  /\ WF_vars(TimerFires)
  /\ WF_vars(SyncSucceeds \/ SyncFails)
  /\ SF_vars(SyncSucceeds)

\* ---------------------------------------- applyChangesToChunk on drawn inputs
PfTypes == {"stone", "brick"}
PfAlphabet ==
  { [ x |-> c[1], y |-> c[2], z |-> c[3], type |-> t, action |-> "place" ] :
      c \in TrackedCells, t \in PfTypes }
  \cup
  { [ x |-> c[1], y |-> c[2], z |-> c[3], type |-> "dirt", action |-> "remove" ] :
      c \in TrackedCells }
\* the tracked column at heights 15, 17 and 10
PfTerrains ==
  { [ c \in Columns |-> n ] : n \in { <<0, -10, 0>>, <<0, 0, 0>>, <<-10, 0, 0>> } }
\* the two chunks that hold tracked cells and one that holds none
PfCoords == { <<-1, 0, 0>>, <<-1, 1, 0>>, <<0, 0, 0>> }

PfInit ==
  /\ noise2D \in PfTerrains
  /\ initialChanges = << >>
  /\ WorldConstructed
  /\ pfCoord \in PfCoords
  /\ pfLog \in SeqsUpTo(PfAlphabet, MaxPfLog)
  /\ pfOnce = << >>
  /\ pfTwice = << >>
  /\ pfPc = "start"
  /\ TgIdle
  /\ BiIdle
  /\ MoreIdle

PfApplyOnce ==
  /\ pfPc = "start"
  /\ pfOnce' = ApplyChangesToChunk(
                  GenerateChunk(pfCoord[1], pfCoord[2], pfCoord[3], CHUNK_SIZE),
                  pfLog)
  /\ pfPc' = "once"
  /\ UNCHANGED << pfCoord, pfLog, pfTwice >>
  /\ UNCHANGED << worldVars, syncVars, tgVars, biVars, moreVars >>

PfApplyAgain ==
  /\ pfPc = "once"
  /\ pfTwice' = ApplyChangesToChunk(pfOnce, pfLog)
  /\ pfPc' = "twice"
  /\ UNCHANGED << pfCoord, pfLog, pfOnce >>
  /\ UNCHANGED << worldVars, syncVars, tgVars, biVars, moreVars >>

PfNext == PfApplyOnce \/ PfApplyAgain

PfSpec == PfInit /\ [][PfNext]_vars

\* ------------------------------------------ TerrainGenerator on drawn inputs
\* cells around the chunk borders at x = -16, y = 16 and z = 0
TgXs == {-17, -16, -1}
TgZs == {-1, 0}
TgYs == 10 .. 17
TgColumns == TgXs \X TgZs
TgCells == { << c[1], y, c[2] >> : c \in TgColumns, y \in TgYs }
TgCellSeq == CellSeq(TgXs, TgYs, TgZs)
TgCoords == {-2, -1, 0} \X {0, 1} \X {-1, 0}
\* seeds "a", "b", "ab"
TgSeeds == { <<97>>, <<98>>, <<97, 98>> }
\* noise samples giving column heights 10, 15, 17 and 11
TgNoiseSeq == << <<-10, 0, 0>>, <<0, -10, 0>>, <<0, 0, 0>>, <<-10, 10, 10>> >>
\* cells a change is placed at: both sides of each chunk border
TgProbes == { c \in TgCells : c[2] \in {15, 16} }

\* createNoise2D / createNoise3D of the noise library: the tables are a
\* function of the value the random source returns
SimplexTables(random) ==
  [ noise2D |-> [ c \in TgColumns |->
                    TgNoiseSeq[((random + 3 * c[1] + c[2]) % 4) + 1] ],
    noise3D |-> [ c \in TgColumns |-> (((random + c[1]) % 3) - 1) * 10 ] ]

\* mutant: the noise functions are created from a random source that does
\* not depend on the seed
NewGenerator_unseeded(inst, seed) ==
  LET tables == SimplexTables(IF inst = "A" THEN 1 ELSE 2)
  IN  [ seed |-> seed, noise2D |-> tables.noise2D, noise3D |-> tables.noise3D ]

\* new TerrainGenerator(seed)
NewGenerator(inst, seed) ==
  LET seedNum == hashSeed(seed)
      tables == SimplexTables(seedNum)
  IN  [ seed |-> seed, noise2D |-> tables.noise2D, noise3D |-> tables.noise3D ]

TgConstruct ==
  /\ \E i \in TgInsts :
       /\ tgGen[i] = << >>
       /\ tgGen' = [ tgGen EXCEPT ![i] = << NewGenerator(i, tgSeed[i]) >> ]
  /\ UNCHANGED << tgSeed, tgCol, tgHeights, tgChunk, tgChange, tgPatched >>
  /\ UNCHANGED << worldVars, syncVars, pfVars, biVars, moreVars >>

\* getHeight(x, z) on an instance, at most twice
TgGetHeight ==
  /\ \E i \in TgInsts :
       /\ tgGen[i] # << >>
       /\ Len(tgHeights[i]) < 2
       /\ tgHeights' =
            [ tgHeights EXCEPT
                ![i] = Append(@, HeightOf(tgGen[i][1].noise2D,
                                          tgCol[1], tgCol[2])) ]
  /\ UNCHANGED << tgSeed, tgGen, tgCol, tgChunk, tgChange, tgPatched >>
  /\ UNCHANGED << worldVars, syncVars, pfVars, biVars, moreVars >>

\* generateChunk(chunkX, chunkY, chunkZ, 16) on an instance
TgGenerate ==
  /\ \E i \in TgInsts, k \in TgCoords :
       /\ tgGen[i] # << >>
       /\ tgChunk[i] = << >>
       /\ tgChunk' =
            [ tgChunk EXCEPT
                ![i] = << GenerateChunkIn(tgGen[i][1].noise2D,
                                          tgGen[i][1].noise3D, TgCellSeq,
                                          k[1], k[2], k[3], CHUNK_SIZE) >> ]
  /\ UNCHANGED << tgSeed, tgGen, tgCol, tgHeights, tgChange, tgPatched >>
  /\ UNCHANGED << worldVars, syncVars, pfVars, biVars, moreVars >>

\* applyChangesToChunk(chunk, [place brick at a probe cell]) on A's chunk
TgApply ==
  /\ tgChunk["A"] # << >>
  /\ tgPatched = << >>
  /\ \E c \in TgProbes :
       LET change == [ x |-> c[1], y |-> c[2], z |-> c[3], type |-> "brick",
                       action |-> "place" ]
       IN  /\ tgChange' = << change >>
           /\ tgPatched' = << ApplyChangesToChunk(tgChunk["A"][1],
                                                  << change >>) >>
  /\ UNCHANGED << tgSeed, tgGen, tgCol, tgHeights, tgChunk >>
  /\ UNCHANGED << worldVars, syncVars, pfVars, biVars, moreVars >>

TgStart ==
  /\ noise2D \in WorldTerrains
  /\ initialChanges = << >>
  /\ WorldConstructed
  /\ PfIdle
  /\ tgGen = [ i \in TgInsts |-> << >> ]
  /\ tgHeights = [ i \in TgInsts |-> << >> ]
  /\ tgChunk = [ i \in TgInsts |-> << >> ]
  /\ tgChange = << >>
  /\ tgPatched = << >>
  /\ BiIdle
  /\ MoreIdle

\* two generators for one world: chunks are generated and patched
GenInit ==
  /\ TgStart
  /\ \E seed \in TgSeeds : tgSeed = [ i \in TgInsts |-> seed ]
  /\ tgCol = << -1, 0 >>

GenNext == TgConstruct \/ TgGenerate \/ TgApply

GenSpec == GenInit /\ [][GenNext]_vars

\* two generators with seeds of their own: heights and chunks are compared
SeedInit ==
  /\ TgStart
  /\ tgSeed \in [ TgInsts -> TgSeeds ]
  /\ tgCol \in TgColumns

SeedNext == TgConstruct \/ TgGetHeight \/ TgGenerate

SeedSpec == SeedInit /\ [][SeedNext]_vars

\* ------------------------------------------------- interaction requests
\* the blocks of the scene a ray can hit, and the face numbers it reports
BiBlocks ==
  { [ x |-> c[1], y |-> c[2], z |-> c[3], type |-> "stone" ] : c \in TrackedCells }
BiFaces == {0, 2}
BiHits == { << >> } \cup { << [ block |-> b, face |-> f ] >> : b \in BiBlocks, f \in BiFaces }
\* Player: the viewpoint is held PLAYER_HEIGHT above the column height the
\* player stands on, in tenths
PLAYER_HEIGHT == 18
\* the rise of a jump started in a frame of 40 ms: JUMP_FORCE * delta, in tenths
JumpRise == 4
\* the cells the player's body is in: from PLAYER_HEIGHT below the viewpoint
\* up to the viewpoint
PlayerCells(pos) ==
  { << Floor(pos[1]), y, Floor(pos[3]) >> :
      y \in Floor(pos[2] - PLAYER_HEIGHT) .. Floor(pos[2]) }

\* viewpoint positions next to the tracked cells: the start position, one
\* out of reach of them, one standing on the tracked column (height 15), one
\* inside it, and one in a jump from it
NearCamPositions ==
  { <<0, 200, 0>>, <<0, 100, 0>>, <<-5, 168, 5>>, <<-5, 158, 5>>,
    <<-5, 168 + JumpRise, 5>> }
ReachCamPositions == { <<0, 200, 0>>, <<0, 100, 0>> }

\* the player moves the viewpoint
MoveCameraWithin(positions) ==
  /\ \E p \in positions : p # camera /\ camera' = p
  /\ UNCHANGED << noise2D, noise3D, terrainGenerator, chunks, changes,
                  isInitialChunksLoaded, loadedChunks, visibleChunks,
                  isChunkGenerationInProgress, playerChunkRef, frameAge,
                  changesEffectDue, initialChanges, worldId >>
  /\ UNCHANGED << syncVars, pfVars, tgVars, biVars, moreVars >>

\* Date.now() advances
AdvanceClock ==
  /\ \E d \in {BiTick, 2 * BiTick} :
       /\ dateNow + d <= BiEpoch + MaxBiTicks * BiTick
       /\ dateNow' = dateNow + d
  /\ UNCHANGED << mounted, targetedBlock, lastInteraction, lastActionKey,
                  biCalls, rcTargetedBlock, lastInteractionTime, rcCalls >>
  /\ UNCHANGED << worldVars, syncVars, pfVars, tgVars, moreVars >>

\* BlockInteraction: the useFrame that re-targets from the ray's hit
BiUseFrame ==
  /\ \E hit \in BiHits :
       targetedBlock' =
         IF hit = << >> THEN << >>
         ELSE IF Beyond(camera, hit[1].block, MAX_INTERACTION_DISTANCE)
           THEN << >>
         ELSE << [ block |-> hit[1].block,
                   face |-> Min(Max(0, hit[1].face), 5) ] >>
  /\ UNCHANGED << mounted, dateNow, lastInteraction, lastActionKey, biCalls,
                  rcTargetedBlock, lastInteractionTime, rcCalls >>
  /\ UNCHANGED << worldVars, syncVars, pfVars, tgVars, moreVars >>

getActionKey(action, x, y, z) == << action, x, y, z >>

\* mutant: the cooldown test never rejects
OnCooldown_never(now, last) == FALSE

\* the cooldown test of handleInteraction
OnCooldown(now, last) == now - last < INTERACTION_COOLDOWN

\* BlockInteraction.handleInteraction(type); locked = a pointer lock is held
HandleInteraction(type, locked) ==
  IF ~locked \/ targetedBlock = << >>
    THEN UNCHANGED << lastInteraction, lastActionKey, biCalls >>
  ELSE
    LET block == targetedBlock[1].block
        face == targetedBlock[1].face
        now == dateNow
    IN  IF OnCooldown(now, lastInteraction)
          THEN UNCHANGED << lastInteraction, lastActionKey, biCalls >>
        ELSE IF Beyond(camera, block, MAX_INTERACTION_DISTANCE)
          THEN UNCHANGED << lastInteraction, lastActionKey, biCalls >>
        ELSE
          \* lastInteraction.current = now comes before the key test, which
          \* reads it back
          LET assigned == now
              validFace == Min(Max(0, face), 5)
              dir == faceDirections[validFace + 1]
              actionKey ==
                IF type = "break"
                  THEN getActionKey("break", block.x, block.y, block.z)
                  ELSE getActionKey("place", block.x + dir[1],
                                    block.y + dir[2], block.z + dir[3])
              call ==
                IF type = "break"
                  THEN [ fn |-> "onBreakBlock",
                         args |-> << block.x, block.y, block.z >>, t |-> now ]
                  ELSE [ fn |-> "onPlaceBlock",
                         args |-> << block.x + dir[1], block.y + dir[2],
                                     block.z + dir[3], validFace >>,
                         t |-> now ]
          IN  /\ lastInteraction' = assigned
              /\ IF actionKey = lastActionKey
                      /\ now - assigned < DOUBLE_FIRE_MS
                   THEN UNCHANGED << lastActionKey, biCalls >>
                   ELSE /\ lastActionKey' = actionKey
                        /\ biCalls' = Append(biCalls, call)

\* a mouse button or the R key
BiRequest ==
  /\ \E type \in {"break", "place"}, locked \in BOOLEAN :
       HandleInteraction(type, locked)
  /\ UNCHANGED << mounted, dateNow, targetedBlock, rcTargetedBlock,
                  lastInteractionTime, rcCalls >>
  /\ UNCHANGED << worldVars, syncVars, pfVars, tgVars, moreVars >>

\* raycasting module: updateRaycast(camera, objects)
UpdateRaycast ==
  /\ \E hit \in BiHits :
       rcTargetedBlock' =
         IF hit = << >> THEN << >>
         ELSE IF Beyond(camera, hit[1].block, MAX_DISTANCE) THEN << >>
         ELSE << [ block |-> hit[1].block, face |-> hit[1].face ] >>
  /\ UNCHANGED << mounted, dateNow, targetedBlock, lastInteraction,
                  lastActionKey, biCalls, lastInteractionTime, rcCalls >>
  /\ UNCHANGED << worldVars, syncVars, pfVars, tgVars, moreVars >>

\* tryBreakBlock / tryPlaceBlock: fn names the callback they are given
TryInteract(fn) ==
  LET now == dateNow
  IN  IF rcTargetedBlock # << >>
           /\ (now - lastInteractionTime) > RC_INTERACTION_COOLDOWN
        THEN /\ rcCalls' =
                  Append(rcCalls,
                         [ fn |-> fn,
                           args |-> << rcTargetedBlock[1].block,
                                       rcTargetedBlock[1].face >>,
                           t |-> now ])
             /\ lastInteractionTime' = now
        ELSE UNCHANGED << rcCalls, lastInteractionTime >>

TryBreakBlock ==
  /\ TryInteract("onBlockBreak")
  /\ UNCHANGED << mounted, dateNow, targetedBlock, lastInteraction,
                  lastActionKey, biCalls, rcTargetedBlock >>
  /\ UNCHANGED << worldVars, syncVars, pfVars, tgVars, moreVars >>

TryPlaceBlock ==
  /\ TryInteract("onBlockPlace")
  /\ UNCHANGED << mounted, dateNow, targetedBlock, lastInteraction,
                  lastActionKey, biCalls, rcTargetedBlock >>
  /\ UNCHANGED << worldVars, syncVars, pfVars, tgVars, moreVars >>

\* one of the three receivers of interaction requests is in use: the World
\* handlers behind the block meshes, the BlockInteraction component, or the
\* raycasting module
InteractInit ==
  /\ noise2D \in WorldTerrains
  /\ mounted \in {"World", "BlockInteraction", "raycasting"}
  /\ initialChanges \in (IF mounted = "World"
                           THEN SeqsUpTo(ChangeAlphabet, MaxInitial)
                           ELSE { << >> })
  /\ WorldConstructed
  /\ PfIdle
  /\ TgIdle
  /\ BiUnused
  /\ MoreIdle

InteractNext ==
  \/ mounted = "World" /\ TerrainEffect
  \/ mounted = "World" /\ ChangesEffect
  \/ mounted = "World" /\ HandleBlockClick
  \/ mounted = "World" /\ HandleBlockRightClick
  \/ mounted = "World" /\ MoveCameraWithin(NearCamPositions)
  \/ mounted = "BlockInteraction" /\ BiUseFrame
  \/ mounted = "BlockInteraction" /\ BiRequest
  \/ mounted = "raycasting" /\ UpdateRaycast
  \/ mounted = "raycasting" /\ TryBreakBlock
  \/ mounted = "raycasting" /\ TryPlaceBlock
  \/ mounted # "World" /\ AdvanceClock
  \/ mounted # "World" /\ MoveCameraWithin(ReachCamPositions)

InteractSpec == InteractInit /\ [][InteractNext]_vars

\* ------------------------------------------------------ Player: the tick
\* Player constants; lengths are in tenths of a unit, times in ms
GRAVITY == 30
JUMP_FORCE == 10
P0_GRAVITY == 2
P0_JUMP_FORCE == 4
P0_MAX_FALL == 20
DELTA_CAP_MS == 100
SAFE_HEIGHT == 1
DEFAULT_HEIGHT == 10
\* frame deltas, ms: a 20 fps frame and one at the cap or beyond
PlDeltas == {50, 100, 150}
PlVariants == {"part_000", "Player.tsx"}
\* what noise2D gives at the column the player is in
PlSamples ==
  { Samples(<<-10, 0, 0>>), Samples(<<0, -10, 0>>), NoSamples("NaN"),
    NoSamples("Infinity"), NoSamples("throw") }
\* terrain objects handed to setTerrainReference: none yet, the
\* TerrainGenerator, or an object whose getHeight fails
PlTerrains ==
  { NoTerrain }
  \cup { [ impl |-> "TerrainGenerator", sample |-> n, result |-> NaN ] :
           n \in PlSamples }
  \cup { [ impl |-> "failing", sample |-> NoSamples("NaN"), result |-> r ] :
           r \in {NaN, Infinity, Thrown} }
PlCoords == { Num(0), NaN, Infinity }

\* TerrainGenerator.getHeight with its validation; sample is what noise2D
\* gives (a non-finite sample makes the elevation non-finite)
GetHeightOf(sample, x, z) ==
  IF x.kind # "number" \/ z.kind # "number" THEN Num(DEFAULT_HEIGHT)
  ELSE IF sample.kind = "throw" THEN Num(DEFAULT_HEIGHT)
  ELSE IF sample.kind # "number" THEN Num(DEFAULT_HEIGHT)
  ELSE Num(HeightOf([ c \in { << x.v, z.v >> } |-> sample.v ], x.v, z.v))

\* terrainRef.getHeight(playerX, playerZ)
TerrainQuery(terrain, x, z) ==
  IF terrain.impl = "TerrainGenerator"
    THEN GetHeightOf(terrain.sample, x, z)
    ELSE terrain.result

\* mutant: the value of the query is used as it comes
TerrainHeightFrom_unchecked(terrain, q) ==
  IF terrain.impl = "null" THEN Num(POS_SCALE * SAFE_HEIGHT)
  ELSE IF q.kind = "throw"
    THEN Num(POS_SCALE * SAFE_HEIGHT + PLAYER_HEIGHT)
  ELSE IF q.kind # "number" THEN q
  ELSE Num(POS_SCALE * q.v + PLAYER_HEIGHT)

\* the terrainHeight of a tick, in tenths, from the query's outcome q
TerrainHeightFrom(terrain, q) ==
  IF terrain.impl = "null" THEN Num(POS_SCALE * SAFE_HEIGHT)
  ELSE IF q.kind = "throw"
    THEN Num(POS_SCALE * SAFE_HEIGHT + PLAYER_HEIGHT)
  ELSE IF q.kind # "number"
    THEN Num(POS_SCALE * SAFE_HEIGHT + PLAYER_HEIGHT)
  ELSE Num(POS_SCALE * q.v + PLAYER_HEIGHT)

\* GRAVITY * delta and the jump velocity, in tenths per tick
GravityStep(variant, delta) ==
  IF variant = "part_000" THEN (P0_GRAVITY * delta) \div 100
  ELSE (GRAVITY * delta) \div 100
JumpVelocity(variant, delta) ==
  IF variant = "part_000" THEN P0_JUMP_FORCE
  ELSE (JUMP_FORCE * delta) \div 100

\* mutant: landing leaves the velocity as it was
VelocityAfter_kept(variant, falling, v, delta) ==
  IF ~falling THEN v
  ELSE IF variant = "part_000"
    THEN Max(v - GravityStep(variant, delta), -(POS_SCALE * P0_MAX_FALL))
  ELSE v - GravityStep(variant, delta)

\* velocity.current.y after the gravity / landing branch
VelocityAfter(variant, falling, v, delta) ==
  IF ~falling THEN 0
  ELSE IF variant = "part_000"
    THEN Max(v - GravityStep(variant, delta), -(POS_SCALE * P0_MAX_FALL))
  ELSE v - GravityStep(variant, delta)

\* one useFrame call with the controls locked; frameDelta is the delta handed in
PlTick ==
  \E frameDelta \in PlDeltas :
    LET delta == Min(frameDelta, DELTA_CAP_MS)
        q == IF plTerrain.impl = "null" THEN Num(0)
             ELSE TerrainQuery(plTerrain, plAt, Num(0))
        terrainHeight == TerrainHeightFrom(plTerrain, q)
        falling == terrainHeight.kind = "number" /\ plY > terrainHeight.v
        landedY == IF falling \/ terrainHeight.kind # "number"
                     THEN plY ELSE terrainHeight.v
        vy == VelocityAfter(plVariant, falling, plVy, delta)
        jumpNow == jump /\ isGrounded
        vy2 == IF jumpNow THEN JumpVelocity(plVariant, delta) ELSE vy
    IN  /\ plQueried' = IF plTerrain.impl = "null" THEN << >> ELSE << q >>
        /\ plCompared' = << terrainHeight >>
        /\ plVy' = vy2
        /\ plY' = landedY + vy2
        /\ isGrounded' = IF jumpNow THEN FALSE ELSE ~falling
        /\ jump' = IF jumpNow THEN FALSE ELSE jump
        /\ UNCHANGED << plVariant, plTerrain, plAt >>
        /\ UNCHANGED << worldVars, syncVars, pfVars, tgVars, biVars, genVars, lgVars,
                        tgtSeen, gmVars, soloVars >>

\* the Space key goes down
PlPressSpace ==
  /\ isGrounded
  /\ ~jump
  /\ jump' = TRUE
  /\ UNCHANGED << plVariant, plTerrain, plAt, plY, plVy, isGrounded,
                  plQueried, plCompared >>
  /\ UNCHANGED << worldVars, syncVars, pfVars, tgVars, biVars, genVars, lgVars,
                        tgtSeen, gmVars, soloVars >>

\* the component is mounted: the viewpoint is put at (0, 20, 0)
PlayerInit ==
  /\ noise2D \in WorldTerrains
  /\ initialChanges = << >>
  /\ WorldConstructed
  /\ PfIdle
  /\ TgIdle
  /\ BiIdle
  /\ failable = FailableChunks
  /\ GenUnused
  /\ LgIdle
  /\ tgtSeen = << >>
  /\ GmIdle
  /\ SoloIdle
  /\ plVariant \in PlVariants
  /\ plTerrain \in PlTerrains
  /\ plAt \in PlCoords
  /\ plY = 200
  /\ plVy = 0
  /\ isGrounded = FALSE
  /\ jump = FALSE
  /\ plQueried = << >>
  /\ plCompared = << >>

PlayerNext == PlTick \/ PlPressSpace

PlayerSpec == PlayerInit /\ [][PlayerNext]_vars

\* frames keep coming while the controls are locked
PlayerFairSpec == PlayerSpec /\ WF_vars(PlTick)

\* ------------------------------------------------------------------ properties
NoDuplicateCoords(blocks) ==
  \A i, j \in DOMAIN blocks :
    (blocks[i].x = blocks[j].x /\ blocks[i].y = blocks[j].y
       /\ blocks[i].z = blocks[j].z) => i = j

BlocksAt(blocks, c) ==
  { i \in DOMAIN blocks : << blocks[i].x, blocks[i].y, blocks[i].z >> = c }

\* a streaming pass is the only step that moves playerChunkRef once the
\* initial chunks are loaded
IsStreamingPass == isInitialChunksLoaded /\ playerChunkRef' # playerChunkRef

\* log indexes still queued, and log indexes in an accepted batch
QueuedIdx == (queuedBase + 1) .. (queuedBase + Len(pendingChanges))
ReceivedIdx ==
  UNION { (received[i].base + 1) .. (received[i].base + Len(received[i].batch)) :
            i \in DOMAIN received }

\* C1: every chunk in the store equals its generated chunk with the change
\* log applied in order, in every state
C1_StoreMatchesLog ==
  \A k \in DOMAIN loadedChunks :
    SeqToSet(loadedChunks[k].blocks) = SeqToSet(LoadChunk(k).blocks)

\* C2: after applyChangesToChunk, every coordinate of the chunk that the
\* change list mentions holds what the last change at it says: absent after a
\* remove, present once with the placed type after a place
C2_LastWriteWins ==
  pfPc \in {"once", "twice"} =>
    \A c \in TrackedCells :
      LET at == { i \in DOMAIN pfLog :
                   << pfLog[i].x, pfLog[i].y, pfLog[i].z >> = c }
      IN  (at # {} /\ getChunkCoords(c[1], c[2], c[3]) = pfCoord) =>
            LET last == CHOOSE i \in at : \A j \in at : j <= i
                here == BlocksAt(pfOnce.blocks, c)
            IN  IF pfLog[last].action = "remove" THEN here = {}
                ELSE /\ Cardinality(here) = 1
                     /\ \A i \in here : pfOnce.blocks[i].type = pfLog[last].type

C2_Witness ==
  /\ pfPc = "once"
  /\ \E i, j \in DOMAIN pfLog :
       /\ i < j
       /\ pfLog[i].action = "place" /\ pfLog[j].action = "remove"
       /\ << pfLog[i].x, pfLog[i].y, pfLog[i].z >>
            = << pfLog[j].x, pfLog[j].y, pfLog[j].z >>
       /\ getChunkCoords(pfLog[i].x, pfLog[i].y, pfLog[i].z) = pfCoord
       /\ BlocksAt(GenerateChunk(pfCoord[1], pfCoord[2], pfCoord[3],
                                 CHUNK_SIZE).blocks,
                   << pfLog[i].x, pfLog[i].y, pfLog[i].z >>) # {}
       /\ BlocksAt(pfOnce.blocks, << pfLog[i].x, pfLog[i].y, pfLog[i].z >>) = {}

\* C3: applying a change list a second time leaves the blocks of the chunk
\* as the first application left them (same blocks, same number of them)
C3_Idempotent ==
  pfPc = "twice" =>
    /\ SeqToSet(pfTwice.blocks) = SeqToSet(pfOnce.blocks)
    /\ Len(pfTwice.blocks) = Len(pfOnce.blocks)

C3_Witness ==
  /\ pfPc = "twice"
  /\ \E i \in DOMAIN pfLog :
       /\ pfLog[i].action = "place"
       /\ BlocksAt(pfTwice.blocks, << pfLog[i].x, pfLog[i].y, pfLog[i].z >>) # {}
  /\ pfOnce.blocks
       # GenerateChunk(pfCoord[1], pfCoord[2], pfCoord[3], CHUNK_SIZE).blocks

\* C4: every change appended by a break or place is still queued or is part
\* of a batch the persistence collaborator accepted
C4_NoChangeLost ==
  \A i \in (Len(initialChanges) + 1) .. Len(changes) :
    i \in QueuedIdx \/ i \in ReceivedIdx

\* C5: a sync that succeeds leaves the queue empty, a sync that fails leaves
\* the queue as it was
C5_SyncOutcome ==
  [][ /\ (Len(received') > Len(received)) => pendingChanges' = << >>
      /\ (inFlight' # inFlight /\ inFlight' \subseteq inFlight
            /\ received' = received) => pendingChanges' = pendingChanges ]_vars

C5_Witness ==
  /\ received # << >>
  /\ pendingChanges # << >>
  /\ ~syncTimer.armed
  /\ inFlight = {}

\* C6: every queued change is eventually part of an accepted batch
C6_EventuallyTransmitted ==
  \A i \in 1 .. MaxLog : (i \in QueuedIdx) ~> (i \in ReceivedIdx)

\* C7: after a streaming pass every visible coordinate that is in the store
\* is in the rendered collection
C7_VisibleRendered ==
  [][ IsStreamingPass =>
        \A k \in visibleChunks' :
          k \in DOMAIN loadedChunks' => k \in RenderedKeys(chunks') ]_vars

\* chunk coordinates within the distance threshold of p
WithinThreshold(p) ==
  { k \in ((p[1] - RENDER_DISTANCE) .. (p[1] + RENDER_DISTANCE))
          \X ((p[2] - RENDER_DISTANCE) .. (p[2] + RENDER_DISTANCE))
          \X ((p[3] - RENDER_DISTANCE) .. (p[3] + RENDER_DISTANCE)) :
      2 * (Abs(k[1] - p[1]) + Abs(k[2] - p[2]) + Abs(k[3] - p[3]))
        <= 3 * RENDER_DISTANCE }

\* C8: after the streaming pass for viewpoint chunk p the visible set is
\* exactly the coordinates within the threshold of p; moving from chunk
\* (0,0,0) to chunk (5,0,0) drops (0,0,0) and shows (5,0,0)
C8_VisibleSet ==
  [][ IsStreamingPass =>
        /\ visibleChunks' = WithinThreshold(playerChunkRef')
        /\ (playerChunkRef = <<0, 0, 0>> /\ playerChunkRef' = <<5, 0, 0>>) =>
             (<<0, 0, 0>> \notin visibleChunks'
                /\ <<5, 0, 0>> \in visibleChunks') ]_vars

C8_Witness ==
  /\ playerChunkRef = << MaxCamChunk, 0, 0 >>
  /\ << 0, 0, 0 >> \in DOMAIN loadedChunks
  /\ << 0, 0, 0 >> \notin visibleChunks
  /\ playerChunkRef \in visibleChunks

\* C9: after a streaming pass no rendered chunk lies outside the visible
\* set, and every coordinate that stopped being visible is gone from the
\* rendered collection
C9_NoStaleRendered ==
  [][ IsStreamingPass =>
        /\ RenderedKeys(chunks') \subseteq visibleChunks'
        /\ \A k \in visibleChunks \ visibleChunks' :
             k \notin RenderedKeys(chunks') ]_vars

C9_Witness ==
  /\ chunks # << >>
  /\ \E k \in DOMAIN loadedChunks : k \notin visibleChunks
  /\ RenderedKeys(chunks) \subseteq visibleChunks

\* C10: no chunk of the store or of the rendered collection holds two
\* blocks with the same coordinate
C10_NoDuplicateBlocks ==
  /\ \A k \in DOMAIN loadedChunks : NoDuplicateCoords(loadedChunks[k].blocks)
  /\ \A i \in DOMAIN chunks : NoDuplicateCoords(chunks[i].blocks)

\* a place at a coordinate the terrain occupies has been applied to a chunk
C10_Witness ==
  \E k \in DOMAIN loadedChunks, i \in DOMAIN changes :
    LET c == << changes[i].x, changes[i].y, changes[i].z >>
    IN  /\ changes[i].action = "place"
        /\ getChunkCoords(c[1], c[2], c[3]) = k
        /\ BlocksAt(GenerateChunk(k[1], k[2], k[3], CHUNK_SIZE).blocks, c) # {}
        /\ \E b \in BlocksAt(loadedChunks[k].blocks, c) :
             loadedChunks[k].blocks[b].type = changes[i].type

\* a cell inside the 16x16x16 footprint of a chunk coordinate
InFootprint(position, c) ==
  \A a \in 1 .. 3 :
    /\ position[a] * CHUNK_SIZE <= c[a]
    /\ c[a] <= position[a] * CHUNK_SIZE + CHUNK_SIZE - 1

CoordsOf(blocks) == { << blocks[i].x, blocks[i].y, blocks[i].z >> : i \in DOMAIN blocks }

\* C11: every block generateChunk(c) emits maps back to c under
\* getChunkCoords, chunks generated for distinct coordinates share no block
\* coordinate, and a change is applied by applyChangesToChunk exactly when
\* the chunk is the one getChunkCoords returns for the change's coordinate
C11_ChunkPartition ==
  /\ \A i \in TgInsts :
       tgChunk[i] # << >> =>
         \A c \in CoordsOf(tgChunk[i][1].blocks) :
           getChunkCoords(c[1], c[2], c[3]) = tgChunk[i][1].position
  /\ (/\ tgChunk["A"] # << >> /\ tgChunk["B"] # << >>
      /\ tgChunk["A"][1].position # tgChunk["B"][1].position)
       => CoordsOf(tgChunk["A"][1].blocks)
            \cap CoordsOf(tgChunk["B"][1].blocks) = {}
  /\ tgPatched # << >> =>
       LET change == tgChange[1]
           applied == \E n \in DOMAIN tgPatched[1].blocks :
                        /\ tgPatched[1].blocks[n].type = "brick"
                        /\ tgPatched[1].blocks[n].x = change.x
                        /\ tgPatched[1].blocks[n].y = change.y
                        /\ tgPatched[1].blocks[n].z = change.z
       IN  applied <=> (getChunkCoords(change.x, change.y, change.z)
                          = tgChunk["A"][1].position)

C11_Witness ==
  /\ tgPatched # << >>
  /\ tgChange[1].x < 0 /\ tgChange[1].z < 0
  /\ \E n \in DOMAIN tgPatched[1].blocks : tgPatched[1].blocks[n].type = "brick"
  /\ tgChunk["B"] # << >>
  /\ tgChunk["B"][1].position # tgChunk["A"][1].position
  /\ tgChunk["A"][1].blocks # << >>
  /\ tgChunk["B"][1].blocks # << >>

\* C12: every block of a generated chunk has y at most the height of its
\* column and lies inside the chunk's footprint
C12_BlocksBelowHeight ==
  \A i \in TgInsts :
    tgChunk[i] # << >> =>
      \A n \in DOMAIN tgChunk[i][1].blocks :
        LET b == tgChunk[i][1].blocks[n]
        IN  /\ b.y <= HeightOf(tgGen[i][1].noise2D, b.x, b.z)
            /\ InFootprint(tgChunk[i][1].position, << b.x, b.y, b.z >>)

C12_Witness ==
  \E i \in TgInsts :
    /\ tgChunk[i] # << >>
    /\ tgChunk[i][1].position[1] < 0
    /\ \E n \in DOMAIN tgChunk[i][1].blocks :
         LET b == tgChunk[i][1].blocks[n]
         IN  /\ b.type = "sand"
             /\ b.y = HeightOf(tgGen[i][1].noise2D, b.x, b.z)
             /\ b.y < WATER_LEVEL

\* C13: in a generated chunk, every cell of a column lower than sea level
\* that is above the column's height and at or below sea level holds water
C13_WaterFilled ==
  \A i \in TgInsts :
    tgChunk[i] # << >> =>
      \A c \in TgCells :
        LET h == HeightOf(tgGen[i][1].noise2D, c[1], c[3])
        IN  (/\ InFootprint(tgChunk[i][1].position, c)
             /\ h < WATER_LEVEL /\ c[2] > h /\ c[2] <= WATER_LEVEL)
              => \E n \in DOMAIN tgChunk[i][1].blocks :
                   /\ tgChunk[i][1].blocks[n].type = "water"
                   /\ << tgChunk[i][1].blocks[n].x, tgChunk[i][1].blocks[n].y,
                         tgChunk[i][1].blocks[n].z >> = c

Grows(log, logNext) ==
  Len(logNext) = Len(log) + 1 /\ SubSeq(logNext, 1, Len(log)) = log
Newest(log) == log[Len(log)]
CellOf(b) == << b.x, b.y, b.z >>

\* C15: a break request against a block whose centre is more than 5 units
\* from the viewpoint leaves everything as it was: World appends a remove to
\* the Change Log or to the pending sync queue only for a block within 5
\* units, and BlockInteraction touches its cooldown state (lastInteraction,
\* lastActionKey) or calls onBreakBlock / onPlaceBlock only with a targeted
\* block within 5 units
C15_BreakOutOfReach ==
  [][ /\ (/\ mounted = "World"
          /\ changes' # changes \/ pendingChanges' # pendingChanges)
         => /\ Grows(changes, changes')
            /\ Grows(pendingChanges, pendingChanges')
            /\ Newest(pendingChanges') = Newest(changes')
            /\ Newest(changes').action = "remove"
                 => /\ \E b \in RenderedBlocks : CellOf(b) = CellOf(Newest(changes'))
                    /\ DistanceSq(camera, Newest(changes'))
                         <= (POS_SCALE * 5) * (POS_SCALE * 5)
      /\ (/\ mounted = "BlockInteraction"
          /\ \/ lastInteraction' # lastInteraction
             \/ lastActionKey' # lastActionKey
             \/ biCalls' # biCalls)
         => /\ targetedBlock # << >>
            /\ DistanceSq(camera, targetedBlock[1].block)
                 <= (POS_SCALE * 5) * (POS_SCALE * 5)
    ]_vars

\* the viewpoint has moved away and a break can be requested on a rendered
\* block that is now out of reach; nothing has been queued
C15_Witness ==
  /\ mounted = "World"
  /\ ~changesEffectDue
  /\ Len(changes) < MaxLog
  /\ camera # << 0, 200, 0 >>
  /\ pendingChanges = << >>
  /\ \E b \in RenderedBlocks :
       DistanceSq(camera, b) > (POS_SCALE * 5) * (POS_SCALE * 5)

\* C16: a place is appended to the Change Log only when the targeted block,
\* the rendered block one face normal away from the placement coordinate, is
\* within 5 units of the viewpoint
C16_PlaceOutOfReach ==
  [][ (/\ mounted = "World"
       /\ Grows(changes, changes')
       /\ Newest(changes').action = "place")
      => \E b \in RenderedBlocks, f \in Faces :
           /\ << b.x + faceDirections[f + 1][1], b.y + faceDirections[f + 1][2],
                 b.z + faceDirections[f + 1][3] >> = CellOf(Newest(changes'))
           /\ DistanceSq(camera, b) <= (POS_SCALE * 5) * (POS_SCALE * 5)
    ]_vars

\* C17: of the onBreakBlock calls BlockInteraction makes, no two for the same
\* coordinate are less than 1 second apart, whatever was requested in between
C17_OneBreakPerSecond ==
  \A i, j \in DOMAIN biCalls :
    (/\ i < j
     /\ biCalls[i].fn = "onBreakBlock" /\ biCalls[j].fn = "onBreakBlock"
     /\ biCalls[i].args = biCalls[j].args)
      => biCalls[j].t - biCalls[i].t >= 1000

\* C18: BlockInteraction and the raycasting module invoke a break or place
\* callback only with a current target, and never less than 250 ms after the
\* callback they invoked last
C18_Cooldown ==
  [][ /\ biCalls' # biCalls
         => /\ Grows(biCalls, biCalls')
            /\ targetedBlock # << >>
            /\ Newest(biCalls').t = dateNow
            /\ biCalls # << >> => dateNow - Newest(biCalls).t >= 250
      /\ rcCalls' # rcCalls
         => /\ Grows(rcCalls, rcCalls')
            /\ rcTargetedBlock # << >>
            /\ Newest(rcCalls').t = dateNow
            /\ rcCalls # << >> => dateNow - Newest(rcCalls).t >= 250
    ]_vars

\* a request can be made less than 250 ms after an accepted one, on a target
\* within reach
C18_Witness ==
  /\ mounted = "BlockInteraction"
  /\ biCalls # << >>
  /\ dateNow - Newest(biCalls).t > 0
  /\ dateNow - Newest(biCalls).t < 250
  /\ targetedBlock # << >>
  /\ DistanceSq(camera, targetedBlock[1].block)
       <= (POS_SCALE * 5) * (POS_SCALE * 5)

\* C19: World appends a place only at a coordinate that is free: no block of
\* a materialized chunk has it, and the Change Log holds no place at it that
\* is not followed by a later remove at it
C19_PlaceOnFreeCell ==
  [][ (/\ mounted = "World"
       /\ Grows(changes, changes')
       /\ Newest(changes').action = "place")
      => LET p == CellOf(Newest(changes'))
         IN  /\ \A k \in DOMAIN loadedChunks :
                  \A b \in SeqToSet(loadedChunks[k].blocks) : CellOf(b) # p
             /\ \A i \in DOMAIN changes :
                  (changes[i].action = "place" /\ CellOf(changes[i]) = p)
                    => \E j \in DOMAIN changes :
                         /\ j > i
                         /\ changes[j].action = "remove"
                         /\ CellOf(changes[j]) = p
    ]_vars

\* the cells a place can be requested at: one face normal away from a
\* rendered block
PlaceTargets ==
  { << b.x + faceDirections[f + 1][1], b.y + faceDirections[f + 1][2],
       b.z + faceDirections[f + 1][3] >> : b \in RenderedBlocks, f \in Faces }

\* a place can be requested at a cell a materialized chunk holds a block at,
\* and at a cell the Change Log holds a place at
C19_Witness ==
  /\ mounted = "World"
  /\ ~changesEffectDue
  /\ Len(changes) < MaxLog
  /\ \E p \in PlaceTargets \cap TrackedCells :
       \E k \in DOMAIN loadedChunks :
         \E b \in SeqToSet(loadedChunks[k].blocks) : CellOf(b) = p
  /\ \E p \in PlaceTargets \cap TrackedCells :
       \E i \in DOMAIN changes :
         changes[i].action = "place" /\ CellOf(changes[i]) = p

\* C20: no place World appends puts a block into a cell the player's body is
\* in (the viewpoint's cell and the cells down to PLAYER_HEIGHT below it)
C20_PlayerSpaceFree ==
  [][ (/\ mounted = "World"
       /\ Grows(changes, changes')
       /\ Newest(changes').action = "place")
      => CellOf(Newest(changes')) \notin PlayerCells(camera)
    ]_vars

\* C21: the Change Log only grows at its end, one entry at a time; the step
\* that appends an entry appends the same entry to the end of the pending
\* sync queue, and nothing is appended to the queue by any other step
C21_AppendOnlyLog ==
  [][ /\ Len(changes') >= Len(changes)
      /\ SubSeq(changes', 1, Len(changes)) = changes
      /\ changes' # changes
         => /\ Grows(changes, changes')
            /\ Grows(pendingChanges, pendingChanges')
            /\ Newest(pendingChanges') = Newest(changes')
      /\ Len(pendingChanges') > Len(pendingChanges) => changes' # changes
    ]_vars

\* a request was accepted on top of a persisted log and is queued
C21_Witness ==
  /\ initialChanges # << >>
  /\ Len(changes) = Len(initialChanges) + 1
  /\ pendingChanges = << Newest(changes) >>
  /\ Newest(changes) # changes[1]

\* ------------------------------------------------- properties: Player
\* the height the player stands at on the terrain in use, in tenths
PlTarget ==
  TerrainHeightFrom(plTerrain,
                    IF plTerrain.impl = "null" THEN Num(0)
                    ELSE TerrainQuery(plTerrain, plAt, Num(0))).v
\* the terrain is flat, of a height the terrain query answers with
FlatTerrain ==
  /\ plTerrain.impl = "TerrainGenerator"
  /\ plTerrain.sample.kind = "number"
  /\ plAt.kind = "number"

\* C22: on flat terrain of height h, position.y is at least h + 1.8 at the
\* end of every tick
C22_NeverBelowGround ==
  FlatTerrain => plY >= PlTarget

AtRest == plY = PlTarget /\ plVy = 0 /\ isGrounded

\* C23: on flat terrain the viewpoint comes to rest at h + 1.8 with vertical
\* velocity 0 and grounded, again after every jump, and no step takes it out
\* of that state while no jump is requested
C23_ComesToRest ==
  /\ []<>(FlatTerrain => AtRest)
  /\ [][ (FlatTerrain /\ AtRest /\ ~jump) => AtRest' ]_vars

\* the viewpoint has come to rest on flat terrain after ticks of falling
C23_Witness ==
  /\ FlatTerrain
  /\ AtRest
  /\ plCompared # << >>

\* C28: getHeight of the TerrainGenerator returns a finite height, the
\* default 10 when a coordinate or the elevation is not finite; and the
\* terrainHeight a tick compares position.y with is finite, 1 + 1.8 when the
\* terrain query threw or returned a non-finite value
C28_FiniteHeights ==
  /\ (plQueried # << >> /\ plTerrain.impl = "TerrainGenerator")
       => /\ plQueried[1].kind = "number"
          /\ (plAt.kind # "number" \/ plTerrain.sample.kind # "number")
               => plQueried[1].v = 10
  /\ plCompared # << >>
       => /\ plCompared[1].kind = "number"
          /\ (plQueried # << >> /\ plQueried[1].kind # "number")
               => plCompared[1].v = 28

\* a tick has run on a terrain whose query returns NaN
C28_Witness ==
  /\ plQueried = << NaN >>
  /\ plCompared = << Num(28) >>
  /\ plY < 200

\* ------------------------------------------------------ chunk streaming

\* the step is a streaming pass that went past the chunk-change gate
DesiredSet == SeqToSet(KeysAround(CameraChunk, VisibleOffsets))
CalledKeys(calls) == { calls[i].key : i \in DOMAIN calls }
ThrownKeys(calls) == { calls[i].key : i \in { j \in DOMAIN calls : calls[j].threw } }

\* C24: a throw of generateChunk for one coordinate does not end the streaming
\* pass: every other missing coordinate of the desired set is generated and
\* stored, the pass completes (visible set replaced, lock released), the
\* coordinate that threw is not put in the store, and a pass whose desired set
\* holds a coordinate missing from the store (a failed one included) calls
\* generateChunk for it again
C24_FailureIsolated ==
  [][ IsStreamingPass =>
        /\ visibleChunks' = DesiredSet
        /\ ~isChunkGenerationInProgress'
        /\ \A k \in DesiredSet :
             /\ k \notin DOMAIN loadedChunks => k \in CalledKeys(genCalls')
             /\ k \in ThrownKeys(genCalls') <=> k \notin DOMAIN loadedChunks'
        /\ ThrownKeys(genCalls') \cap DOMAIN loadedChunks' = { } ]_vars

\* a coordinate that threw in a pass at the far position is in the store
\* after a later pass with the same desired set called generateChunk for it
\* again
C24_Witness ==
  /\ visibleChunks = DesiredSet
  /\ \E k \in FailableChunks \cap everFailed :
       /\ k \in DOMAIN loadedChunks
       /\ k \in CalledKeys(genCalls) \ ThrownKeys(genCalls)

\* C25: generateChunk is never called for a coordinate that is in the chunk
\* store, nor twice for one coordinate within one pass or effect, and the
\* in-progress lock is never held when a step begins, so no streaming pass
\* starts while another holds it
C25_NoDoubleGeneration ==
  /\ [][ genCalls' # genCalls =>
           /\ CalledKeys(genCalls') \cap DOMAIN loadedChunks = { }
           /\ Cardinality(CalledKeys(genCalls')) = Len(genCalls') ]_vars
  /\ [](~isChunkGenerationInProgress)

\* after the initial load and a streaming pass, the changes effect has
\* generated on demand a visible coordinate that was missing from the store
C25_Witness ==
  /\ ~changesEffectDue
  /\ playerChunkRef # << 0, 1, 0 >>
  /\ Len(changes) > 0
  /\ \E k \in NearFailableChunks :
       /\ genCalls = << [ key |-> k, threw |-> FALSE ] >>
       /\ k \in visibleChunks /\ k \in DOMAIN loadedChunks
       /\ DOMAIN loadedChunks # {k}

\* ------------------------------------------- legacy World (rate-limited)

\* viewpoint positions of the legacy World: the start, a few blocks below it
\* in the same chunk, and one chunk east
LgCamPositions == { << 0, 20, 0 >>, << 0, 17, 0 >>, << 16, 20, 0 >> }

\* the offsets of the three nested loops, x outermost, y from -1
LgLoopOffsets ==
  LET n == 2 * RENDER_DISTANCE + 1
      m == RENDER_DISTANCE + 2
  IN  [ i \in 1 .. (n * m * n) |->
          << ((i - 1) \div (m * n)) - RENDER_DISTANCE,
             (((i - 1) \div n) % m) - 1,
             ((i - 1) % n) - RENDER_DISTANCE >> ]

\* Math.sqrt(x * x + y * y + z * z) > RENDER_DISTANCE skips the offset
LgWithinDistance(o) ==
  ~(o[1] * o[1] + o[2] * o[2] + o[3] * o[3] > RENDER_DISTANCE * RENDER_DISTANCE)

LgChunkOf(pos) ==
  << (pos[1] \div CHUNK_SIZE), (pos[2] \div CHUNK_SIZE),
     (pos[3] \div CHUNK_SIZE) >>

\* the coordinates within render distance of a viewpoint position, loop order
LgDesiredKeys(pos) ==
  KeysAround(LgChunkOf(pos), SelectSeq(LgLoopOffsets, LgWithinDistance))

\* the first limit entries of a sequence
FirstN(seq, limit) == SubSeq(seq, 1, Min(Len(seq), limit))

\* mutant: the loops do not test the count
LgChunksToLoad_unlimited(pos) ==
  SelectSeq(LgDesiredKeys(pos), LAMBDA k : k \notin lgLoaded)
\* the chunks one update generates: the loops break once chunksToProcess
\* has reached MAX_CHUNKS_PER_FRAME
LgChunksToLoad(pos) ==
  FirstN(SelectSeq(LgDesiredKeys(pos), LAMBDA k : k \notin lgLoaded),
         MAX_CHUNKS_PER_FRAME)

\* playerPos.distanceTo(lastCheckedPosition.current) < 10
LgNearLastCheck ==
  LET d == [ i \in 1 .. 3 |-> lgCamera[i] - lastCheckedPosition[i] ]
  IN  d[1] * d[1] + d[2] * d[2] + d[3] * d[3] < LG_CHECK_DISTANCE * LG_CHECK_DISTANCE

\* the terrain effect of the legacy World: the generator and the nine chunks
\* of the layer around the start
LgTerrainEffect ==
  LET start == << (0 \div CHUNK_SIZE), (20 \div CHUNK_SIZE),
                  (0 \div CHUNK_SIZE) >>
      layer == SelectSeq(CubeOffsets(1), LAMBDA o : o[2] = 0)
      initialChunks == SelectSeq(KeysAround(<< start[1], start[2], start[3] >>,
                                            [ i \in DOMAIN layer |->
                                                << layer[i][1], 0, layer[i][3] >> ]),
                                 LAMBDA k : k \notin lgLoaded)
  IN  /\ ~lgGenerator
      /\ lgGenerator' = TRUE
      /\ lgLoaded' = lgLoaded \cup SeqToSet(initialChunks)
      /\ IF Len(initialChunks) > 0
           THEN lgChunks' = initialChunks /\ lgInitialLoaded' = TRUE
           ELSE UNCHANGED << lgChunks, lgInitialLoaded >>
      /\ UNCHANGED << lgCamera, lastCheckedPosition, lgLock, lgNewChunks >>
      /\ UNCHANGED << worldVars, syncVars, pfVars, tgVars, biVars, genVars,
                      plVars, tgtSeen, gmVars, soloVars >>

\* one frame of the legacy streaming useFrame that gets past its returns
LgUseFrame ==
  /\ lgGenerator /\ lgInitialLoaded /\ ~lgLock
  /\ ~LgNearLastCheck
  /\ lastCheckedPosition' = lgCamera
  /\ LET newChunks == LgChunksToLoad(lgCamera)
     IN  /\ lgLoaded' = lgLoaded \cup SeqToSet(newChunks)
         /\ lgNewChunks' = newChunks
         /\ lgChunks' = IF Len(newChunks) > 0 THEN lgChunks \o newChunks
                        ELSE lgChunks
  /\ lgLock' = FALSE
  /\ UNCHANGED << lgGenerator, lgInitialLoaded, lgCamera >>
  /\ UNCHANGED << worldVars, syncVars, pfVars, tgVars, biVars, genVars,
                  plVars, tgtSeen, gmVars, soloVars >>

\* the player moves the viewpoint
LgMoveCamera ==
  /\ lgGenerator
  /\ \E p \in LgCamPositions : p # lgCamera /\ lgCamera' = p
  /\ UNCHANGED << lgGenerator, lgLoaded, lgChunks, lgInitialLoaded,
                  lastCheckedPosition, lgLock, lgNewChunks >>
  /\ UNCHANGED << worldVars, syncVars, pfVars, tgVars, biVars, genVars,
                  plVars, tgtSeen, gmVars, soloVars >>

LegacyInit ==
  /\ noise2D \in WorldTerrains
  /\ initialChanges = << >>
  /\ WorldConstructed
  /\ PfIdle
  /\ TgIdle
  /\ BiIdle
  /\ MoreIdle

LegacyNext ==
  \/ LgTerrainEffect
  \/ LgUseFrame
  \/ LgMoveCamera

LegacySpec == LegacyInit /\ [][LegacyNext]_vars

\* every frame is rendered: the useFrame callback keeps being called
LegacyFairSpec ==
  /\ LegacySpec
  /\ WF_vars(LgTerrainEffect)
  /\ WF_vars(LgUseFrame)

\* ------------------------------------------------------------ targeting

\* ray distances are held in thousandths of a world unit
DIST_SCALE == 1000

\* what Raycaster.intersectObjects reports for a block: the instanced mesh
\* carries userData.blocks, the instance id selects the block; data says
\* what can be read back: "blocks" (array and a valid instanceId),
\* "noInstance" (array, instanceId undefined), "none" (no userData);
\* faceIndex is -1 when undefined
TgtData == { "blocks", "noInstance", "none" }
TgtFaceIndexes == { -1, 4, 11 }
Hit(x, y, z, distance) ==
  [ block |-> [ x |-> x, y |-> y, z |-> z, type |-> "stone" ],
    distance |-> distance ]

\* scenes: a viewpoint and the cubes a ray from it passes through within
\* raycaster.far, nearest first. A cube is centred on its block's
\* coordinates (Chunk.tsx sets the instance position to them). From
\* (0, 1.8, 0) along (-2, -1, 0) the ray enters block (-1, 2, 0) at 0.559 and
\* block (-1, 1, 0) at 0.671; from the origin along +x it enters block
\* (n, 0, 0) at n - 0.5
TgtScenes ==
  { [ pos |-> << 0, 18, 0 >>,
      hits |-> << Hit(-1, 2, 0, 559), Hit(-1, 1, 0, 671) >> ],
    [ pos |-> << 0, 0, 0 >>,
      hits |-> << Hit(1, 0, 0, 500), Hit(2, 0, 0, 1500) >> ],
    [ pos |-> << 0, 0, 0 >>,
      hits |-> << Hit(4, 0, 0, 3500), Hit(5, 0, 0, 4500) >> ] }
TgtCamPositions == { sc.pos : sc \in TgtScenes }

\* a cube of the scene is there or not, and carries some data and face index
Dressed(hit) ==
  { [ block |-> hit.block, distance |-> hit.distance, data |-> d,
      faceIndex |-> f ] : d \in TgtData, f \in TgtFaceIndexes }
DressedHits(hits) ==
  LET first == { << >> } \cup { << h >> : h \in Dressed(hits[1]) }
      second == { << >> } \cup { << h >> : h \in Dressed(hits[2]) }
  IN  { a \o b : a \in first, b \in second }
\* the intersection lists the raycaster can report at a viewpoint position
IntersectsAt(pos) ==
  { << >> } \cup UNION { DressedHits(sc.hits) : sc \in { t \in TgtScenes : t.pos = pos } }

\* validIntersections.sort((a, b) => a.distance - b.distance)
RECURSIVE SortByDistance(_)
SortByDistance(hits) ==
  IF hits = << >> THEN << >>
  ELSE LET i == CHOOSE j \in DOMAIN hits :
                  /\ \A k \in DOMAIN hits : hits[j].distance <= hits[k].distance
                  /\ \A k \in 1 .. (j - 1) : hits[k].distance > hits[j].distance
       IN  << hits[i] >>
             \o SortByDistance(SubSeq(hits, 1, i - 1)
                                 \o SubSeq(hits, i + 1, Len(hits)))

\* extractBlockFromIntersection / getBlockFromIntersection give a block
Resolvable(hit) == hit.data = "blocks"
\* isObjectWithBlockData
HasBlockData(hit) == hit.data # "none"
HasFaceIndex(hit) == hit.faceIndex # -1

\* the first entry of a sequence that passes a test, as << >> or <<entry>>
FirstThat(seq, Test(_)) ==
  LET kept == SelectSeq(seq, Test) IN IF kept = << >> THEN << >> ELSE << kept[1] >>

\* BlockInteraction.tsx: the target the useFrame sets from the intersections
BiTargetOf(pos, intersects) ==
  LET validIntersections ==
        SelectSeq(intersects,
                  LAMBDA i : HasFaceIndex(i)
                             /\ i.distance <= DIST_SCALE * MAX_INTERACTION_DISTANCE)
      chosen == FirstThat(SortByDistance(validIntersections),
                          LAMBDA i : Resolvable(i)
                                     /\ ~Beyond(pos, i.block, MAX_INTERACTION_DISTANCE))
  IN  IF chosen = << >> THEN << >>
      ELSE << [ block |-> chosen[1].block,
                face |-> Min(Max(0, chosen[1].faceIndex \div 2), 5) ] >>

\* findValidIntersection of the raycasting module
FindValidIntersection(intersects) ==
  FirstThat(SortByDistance(SelectSeq(intersects,
                                     LAMBDA i : HasFaceIndex(i) /\ HasBlockData(i))),
            LAMBDA i : TRUE)

\* the raycasting module: the target updateRaycast sets
RcTargetOf(pos, intersects) ==
  LET intersection == FindValidIntersection(intersects)
  IN  IF intersection = << >> THEN << >>
      ELSE IF ~Resolvable(intersection[1]) THEN << >>
      ELSE IF Beyond(pos, intersection[1].block, MAX_DISTANCE) THEN << >>
      ELSE << [ block |-> intersection[1].block,
                face |-> intersection[1].faceIndex \div 2 ] >>

\* BlockInteraction.tsx: one useFrame call
TgtUseFrame ==
  /\ mounted = "BlockInteraction"
  /\ \E intersects \in IntersectsAt(camera) :
       /\ tgtSeen' = << [ pos |-> camera, hits |-> intersects ] >>
       /\ targetedBlock' = BiTargetOf(camera, intersects)
  /\ UNCHANGED << mounted, dateNow, lastInteraction, lastActionKey, biCalls,
                  rcTargetedBlock, lastInteractionTime, rcCalls >>
  /\ UNCHANGED << worldVars, syncVars, pfVars, tgVars, genVars, plVars, lgVars,
                  gmVars, soloVars >>

\* the raycasting module: one updateRaycast call
TgtUpdateRaycast ==
  /\ mounted = "raycasting"
  /\ \E intersects \in IntersectsAt(camera) :
       /\ tgtSeen' = << [ pos |-> camera, hits |-> intersects ] >>
       /\ rcTargetedBlock' = RcTargetOf(camera, intersects)
  /\ UNCHANGED << mounted, dateNow, targetedBlock, lastInteraction,
                  lastActionKey, biCalls, lastInteractionTime, rcCalls >>
  /\ UNCHANGED << worldVars, syncVars, pfVars, tgVars, genVars, plVars, lgVars,
                  gmVars, soloVars >>

TargetInit ==
  /\ noise2D \in WorldTerrains
  /\ mounted \in { "BlockInteraction", "raycasting" }
  /\ initialChanges = << >>
  /\ WorldConstructed
  /\ PfIdle
  /\ TgIdle
  /\ BiUnused
  /\ MoreIdle

TargetNext ==
  \/ TgtUseFrame
  \/ TgtUpdateRaycast
  \/ MoveCameraWithin(TgtCamPositions)

TargetSpec == TargetInit /\ [][TargetNext]_vars

\* ----------------------------------------------------- game initialisation

GmStoredIds == { 1, 2 }
GmNewIds == { 3, 4, 5 }
GmSeeds == { "k3v", "x9q", "m0z" }
GmErrorText == "Failed to load the game. Please try again."
\* the change logs a stored world may hold
GmChangeLogs == { << >> } \cup { << c >> : c \in ChangeAlphabet }
WorldRecord(id, seed, log) == [ id |-> id, seed |-> seed, changes |-> log ]
Settled(call, ok) == [ call |-> call, ok |-> ok ]

\* mutant: no inner try block
GmCaught_none(call) == FALSE
\* the awaited calls that sit in a try block of their own
GmCaught(call) == call \in { "preloadTextures", "getWorld" }

\* the outer catch: setError, setLoading(false)
GmOuterCatch ==
  /\ error' = << GmErrorText >>
  /\ loading' = FALSE
  /\ gmPc' = "done"
  /\ UNCHANGED << worldData, gmStorage >>

\* initGame goes on to its next await
GmContinue(next) ==
  /\ gmPc' = next
  /\ UNCHANGED << loading, error, worldData, gmStorage >>

\* setWorldData(world); setLoading(false)
GmFinish(world) ==
  /\ worldData' = << world >>
  /\ loading' = FALSE
  /\ gmPc' = "done"
  /\ UNCHANGED error

GmRest == << worldVars, syncVars, pfVars, tgVars, biVars, genVars, plVars,
             lgVars, tgtSeen, soloVars >>

\* the init timer fires: initGame starts and awaits preloadTextures
GmTimerFires ==
  /\ gmPc = "mounted"
  /\ loading' = TRUE
  /\ gmPc' = "preloadTextures"
  /\ UNCHANGED << error, worldData, gmStorage, gmLog >>
  /\ UNCHANGED GmRest

\* preloadTextures settles; then localStorage is read and getWorld or
\* createWorld is called
GmPreloadSettles ==
  /\ gmPc = "preloadTextures"
  /\ \E ok \in BOOLEAN :
       /\ gmLog' = Append(gmLog, Settled("preloadTextures", ok))
       /\ IF ~ok /\ ~GmCaught("preloadTextures")
            THEN GmOuterCatch
            ELSE GmContinue(IF gmStorage # << >> THEN "getWorld"
                            ELSE "createWorld")
  /\ UNCHANGED GmRest

\* getWorld(storedWorldId) settles
GmGetWorldSettles ==
  /\ gmPc = "getWorld"
  /\ \E ok \in BOOLEAN, seed \in GmSeeds, log \in GmChangeLogs :
       /\ gmLog' = Append(gmLog, Settled("getWorld", ok))
       /\ IF ok THEN GmFinish(WorldRecord(gmStorage[1], seed, log))
                      /\ UNCHANGED gmStorage
          ELSE IF GmCaught("getWorld") THEN GmContinue("createWorld")
          ELSE GmOuterCatch
  /\ UNCHANGED GmRest

\* createWorld(seed) settles; the id of the new world is stored
GmCreateWorldSettles ==
  /\ gmPc = "createWorld"
  /\ \E ok \in BOOLEAN, id \in GmNewIds, seed \in GmSeeds :
       /\ gmLog' = Append(gmLog, Settled("createWorld", ok))
       /\ IF ok
            THEN /\ gmStorage' = << id >>
                 /\ GmFinish(WorldRecord(id, seed, << >>))
            ELSE GmOuterCatch
  /\ UNCHANGED GmRest

\* the page is loaded again: a new Game component, the same localStorage
GmReload ==
  /\ gmPc = "done"
  /\ gmPc' = "mounted"
  /\ loading' = TRUE
  /\ error' = << >>
  /\ worldData' = << >>
  /\ gmLog' = << >>
  /\ UNCHANGED gmStorage
  /\ UNCHANGED GmRest

GameInit ==
  /\ noise2D \in WorldTerrains
  /\ initialChanges = << >>
  /\ WorldConstructed
  /\ PfIdle
  /\ TgIdle
  /\ BiIdle
  /\ failable = FailableChunks
  /\ GenUnused
  /\ PlIdle
  /\ LgIdle
  /\ tgtSeen = << >>
  /\ SoloIdle
  /\ gmPc = "mounted"
  /\ loading = TRUE
  /\ error = << >>
  /\ worldData = << >>
  /\ gmStorage \in { << >> } \cup { << id >> : id \in GmStoredIds }
  /\ gmLog = << >>

GameNext ==
  \/ GmTimerFires
  \/ GmPreloadSettles
  \/ GmGetWorldSettles
  \/ GmCreateWorldSettles
  \/ GmReload

GameSpec == GameInit /\ [][GameNext]_vars

\* the legacy update keeps to its limit
LgBoundedPerUpdate == Len(lgNewChunks) <= MAX_CHUNKS_PER_FRAME

\* C26: one streaming update generates at most MAX_CHUNKS_PER_FRAME chunks,
\* however many coordinates of the desired set are missing from the store
C26_BoundedPerUpdate ==
  [][ IsStreamingPass =>
        Cardinality(DOMAIN loadedChunks' \ DOMAIN loadedChunks)
          <= MAX_CHUNKS_PER_FRAME ]_vars

\* C27: when the viewpoint stays where it is, every coordinate within render
\* distance of it is eventually in the chunk store: later frames generate
\* what a rate-limited update left out
C27_EventuallyLoaded ==
  \A p \in LgCamPositions :
    <>[](lgCamera = p) => <>(SeqToSet(LgDesiredKeys(p)) \subseteq lgLoaded)

\* the target the mounted implementation holds
Targeted ==
  IF mounted = "BlockInteraction" THEN targetedBlock ELSE rcTargetedBlock
\* the candidates of the last frame that carry resolvable block data and a
\* face index and whose block centre is within reach
Eligible ==
  { i \in DOMAIN tgtSeen[1].hits :
      LET h == tgtSeen[1].hits[i]
      IN  /\ Resolvable(h) /\ HasFaceIndex(h)
          /\ ~Beyond(tgtSeen[1].pos, h.block, MAX_INTERACTION_DISTANCE) }

\* C29: after a frame the target is the eligible candidate with the smallest
\* distance from the viewpoint to the block centre, and there is no target
\* when no candidate is eligible
C29_NearestByCentre ==
  tgtSeen # << >> =>
    IF Eligible = { } THEN Targeted = << >>
    ELSE /\ Targeted # << >>
         /\ \E i \in Eligible :
              /\ Targeted[1].block = tgtSeen[1].hits[i].block
              /\ \A j \in Eligible :
                   DistanceSq(tgtSeen[1].pos, tgtSeen[1].hits[i].block)
                     <= DistanceSq(tgtSeen[1].pos, tgtSeen[1].hits[j].block)

\* how a call of initGame settled, if it was awaited
GmFailed(call) == \E i \in DOMAIN gmLog : gmLog[i] = Settled(call, FALSE)
GmSucceeded(call) == \E i \in DOMAIN gmLog : gmLog[i] = Settled(call, TRUE)

DEBOUNCE_MS == 2000

\* the clock advances in DEBOUNCE_MS / DbParts steps, MaxDbSteps times
DbParts == 2
MaxDbSteps == 6
DbStep == DEBOUNCE_MS \div DbParts

\* the changes the timed runs append
DbChanges ==
  { [ x |-> 0, y |-> 16, z |-> 0, type |-> t, action |-> "place" ] :
      t \in SelectableTypes }

\* everything but the World's log, its queue and the debounce clock
DbRest == << noise2D, noise3D, terrainGenerator, chunks,
             isInitialChunksLoaded, loadedChunks, visibleChunks,
             isChunkGenerationInProgress, playerChunkRef, camera, frameAge,
             initialChanges, worldId, pfVars, tgVars, biVars, genVars, plVars,
             lgVars, tgtSeen, gmVars, mvVars >>

\* a handler appends a change; the sync effect re-runs: its cleanup clears
\* the timer of the previous run and a new one is set, due 2 s from now
DbAppendChange ==
  /\ Len(changes) < MaxLog
  /\ \E c \in DbChanges : AppendChange(c)
  /\ dbLastChange' = dbNow
  /\ dbDeadline' = dbNow + DEBOUNCE_MS
  /\ UNCHANGED << dbNow, dbStarted, DbRest >>

\* time passes; an armed timer runs its callback when it is due
DbTick ==
  /\ dbNow < MaxDbSteps * DbStep
  /\ syncTimer.armed => dbNow < dbDeadline
  /\ dbNow' = dbNow + DbStep
  /\ UNCHANGED << dbDeadline, dbLastChange, dbStarted, DbRest >>
  /\ UNCHANGED << changes, changesEffectDue, syncVars >>

\* the timer is due: syncChanges starts with the pendingChanges it captured
DbTimerFires ==
  /\ dbNow >= dbDeadline
  /\ TimerFiresStep
  /\ dbStarted' = dbStarted \cup
                    { [ at |-> dbNow, batch |-> syncTimer.batch,
                        queue |-> pendingChanges, since |-> dbLastChange ] }
  /\ UNCHANGED << dbNow, dbDeadline, dbLastChange, DbRest >>
  /\ UNCHANGED << changes, changesEffectDue >>

\* updateWorldChanges resolves
DbSyncSucceeds ==
  /\ SyncSucceedsStep
  /\ UNCHANGED << dbVars, DbRest, changes, changesEffectDue >>

\* updateWorldChanges rejects
DbSyncFails ==
  /\ SyncFailsStep
  /\ UNCHANGED << dbVars, DbRest, changes, changesEffectDue >>

DebounceInit ==
  /\ noise2D \in WorldTerrains
  /\ initialChanges = << >>
  /\ WorldConstructed
  /\ PfIdle
  /\ TgIdle
  /\ BiIdle
  /\ MoreIdle

DebounceNext ==
  \/ DbAppendChange
  \/ DbTick
  \/ DbTimerFires
  \/ DbSyncSucceeds
  \/ DbSyncFails

DebounceSpec == DebounceInit /\ [][DebounceNext]_vars

\* no syncChanges run started less than 2 s after the change before it, and
\* each carried the whole queue in order
DbQuietDuringBurst ==
  \A s \in dbStarted : s.at - s.since >= DEBOUNCE_MS /\ s.batch = s.queue

\* C31: while changes keep arriving less than 2 s apart no transmission is
\* started, and once 2 s have passed since the last change exactly one
\* transmission, carrying the whole queue in append order, was started at
\* that moment
C31_Debounce ==
  /\ DbQuietDuringBurst
  /\ (dbLastChange >= 0 /\ dbNow > dbLastChange + DEBOUNCE_MS) =>
       Cardinality({ s \in dbStarted :
                       /\ s.at = dbLastChange + DEBOUNCE_MS
                       /\ s.batch = s.queue
                       /\ Len(s.batch) > 0 }) = 1


\* ------------------------------------------- World: first generation of a chunk
\* the chunks this step generates: the coordinates new to the Chunk Store
FirstGenerated == (DOMAIN loadedChunks') \ (DOMAIN loadedChunks)

\* C32: a chunk that is generated for the first time, by the initial load, a
\* streaming pass or the changes effect, enters the Chunk Store and the
\* rendered collection with the Change Log entries present already applied
C32_PatchedWhenFirstStored ==
  [][\A k \in FirstGenerated :
       LET patched == ApplyChangesToChunk(
                        GenerateChunk(k[1], k[2], k[3], CHUNK_SIZE), changes)
       IN  /\ loadedChunks'[k] = patched
           /\ \A i \in DOMAIN chunks' :
                ChunkKeyOf(chunks'[i]) = k => chunks'[i] = patched]_vars


\* ------------------------------------- Player: the tick with movement keys
\* SPEED of the two Player sources, and the step a grounded player may take
SPEED == 10
P0_SPEED == 7
STEP_UP == 5
\* x is held in twentieths so that SPEED * delta is exact at both frame rates
MV_SCALE == 2 * POS_SCALE
MvDeltas == {50, 100}
MvColumns == -2 .. 2
\* getHeight over the columns: single steps, a two-block wall and a ledge
MvProfiles ==
  { [ c \in MvColumns |-> << 12, 11, 10, 11, 13 >>[c + 3] ],
    [ c \in MvColumns |-> << 13, 10, 10, 11, 12 >>[c + 3] ] }

\* velocity.current.x of a tick, in 1/MV_SCALE
MoveStep(variant, dir, delta) ==
  LET speed == IF variant = "part_000" THEN P0_SPEED ELSE SPEED
  IN  (dir * speed * delta * MV_SCALE) \div 1000

\* terrainRef.getHeight(Math.floor(x), ...) + 1.8, in tenths
StandingHeightAt(x) == POS_SCALE * mvHeights[x \div MV_SCALE] + PLAYER_HEIGHT

\* mutant: an ascending player is stopped by every taller column
MoveReverted_noProjection(variant, grounded, vy, y, newTerrainHeight) ==
  IF variant = "part_000"
    THEN IF grounded THEN newTerrainHeight > y + STEP_UP
         ELSE IF vy > 0 THEN newTerrainHeight > y
         ELSE IF vy < 0 THEN newTerrainHeight > y
         ELSE FALSE
    ELSE grounded /\ newTerrainHeight > y + STEP_UP

\* the collision test after moveRight / moveForward: is (oldX, oldZ) restored
MoveReverted(variant, grounded, vy, y, newTerrainHeight) ==
  IF variant = "part_000"
    THEN IF grounded THEN newTerrainHeight > y + STEP_UP
         ELSE IF vy > 0
           THEN newTerrainHeight > y /\ y + vy < newTerrainHeight
         ELSE IF vy < 0 THEN newTerrainHeight > y
         ELSE FALSE
    ELSE grounded /\ newTerrainHeight > y + STEP_UP

\* one useFrame call with the controls locked, over a finite terrain, with
\* the movement keys as they are held
MvTick ==
  LET delta == Min(mvDelta, DELTA_CAP_MS)
      terrainHeight == StandingHeightAt(mvX)
      falling == plY > terrainHeight
      landedY == IF falling THEN plY ELSE terrainHeight
      vy == VelocityAfter(plVariant, falling, plVy, delta)
      jumpNow == jump /\ isGrounded
      vy2 == IF jumpNow THEN JumpVelocity(plVariant, delta) ELSE vy
      newX == mvX + MoveStep(plVariant, mvDir, delta)
  IN  /\ (newX \div MV_SCALE) \in MvColumns
      /\ LET newTerrainHeight == StandingHeightAt(newX)
             reverted == MoveReverted(plVariant, isGrounded, vy2, landedY,
                                      newTerrainHeight)
         IN  /\ mvX' = IF reverted THEN mvX ELSE newX
             /\ mvLast' = << [ grounded |-> isGrounded, resting |-> ~falling,
                               impulse |-> jumpNow, vy |-> vy2, y |-> landedY,
                               from |-> mvX, to |-> newX ] >>
      /\ plVy' = vy2
      /\ plY' = landedY + vy2
      /\ isGrounded' = IF jumpNow THEN FALSE ELSE ~falling
      /\ jump' = IF jumpNow THEN FALSE ELSE jump
      /\ UNCHANGED << plVariant, plTerrain, plAt, plQueried, plCompared >>
      /\ UNCHANGED << mvHeights, mvDelta, mvDir, dbVars >>
      /\ UNCHANGED << worldVars, syncVars, pfVars, tgVars, biVars, genVars,
                      lgVars, tgtSeen, gmVars >>

\* handleKeyDown / handleKeyUp of KeyA and KeyD
MvKey ==
  /\ \E d \in {-1, 0, 1} : d # mvDir /\ mvDir' = d
  /\ UNCHANGED << mvHeights, mvDelta, mvX, mvLast, dbVars, plVars >>
  /\ UNCHANGED << worldVars, syncVars, pfVars, tgVars, biVars, genVars,
                  lgVars, tgtSeen, gmVars >>

\* handleKeyDown of Space
MvPressSpace ==
  /\ isGrounded
  /\ ~jump
  /\ jump' = TRUE
  /\ UNCHANGED << plVariant, plTerrain, plAt, plY, plVy, isGrounded,
                  plQueried, plCompared, soloVars >>
  /\ UNCHANGED << worldVars, syncVars, pfVars, tgVars, biVars, genVars,
                  lgVars, tgtSeen, gmVars >>

\* the component is mounted over a terrain: the viewpoint is at (0, 20, 0)
MoveInit ==
  /\ noise2D \in WorldTerrains
  /\ initialChanges = << >>
  /\ WorldConstructed
  /\ PfIdle
  /\ TgIdle
  /\ BiIdle
  /\ failable = FailableChunks
  /\ GenUnused
  /\ LgIdle
  /\ tgtSeen = << >>
  /\ GmIdle
  /\ DbIdle
  /\ plVariant \in PlVariants
  /\ plTerrain = NoTerrain
  /\ plAt = Num(0)
  /\ plY = 200
  /\ plVy = 0
  /\ isGrounded = FALSE
  /\ jump = FALSE
  /\ plQueried = << >>
  /\ plCompared = << >>
  /\ mvHeights \in MvProfiles
  /\ mvDelta \in MvDeltas
  /\ mvX = 0
  /\ mvDir = 0
  /\ mvLast = << >>

MoveNext == MvTick \/ MvKey \/ MvPressSpace

MoveSpec == MoveInit /\ [][MoveNext]_vars

\* the last tick tried to leave its column, and the height of a column
MvCrossed ==
  /\ mvLast # << >>
  /\ mvLast[1].to \div MV_SCALE # mvLast[1].from \div MV_SCALE
MvColumnHeight(x) == mvHeights[x \div MV_SCALE]

C34_AirborneRevert ==
  (mvLast # << >> /\ plVariant = "part_000" /\ ~mvLast[1].grounded
     /\ mvLast[1].to # mvLast[1].from) =>
    LET t == mvLast[1]
        top == StandingHeightAt(t.to)
        taller == top > t.y
    IN  (mvX = t.from) <=> \/ t.vy > 0 /\ taller /\ t.y + t.vy < top
                           \/ t.vy < 0 /\ taller

\* an ascending airborne viewpoint entered a taller column whose top its
\* projected height reaches, and a descending one was put back
C34_Witness ==
  /\ mvLast # << >>
  /\ plVariant = "part_000"
  /\ ~mvLast[1].grounded
  /\ mvLast[1].vy > 0
  /\ StandingHeightAt(mvLast[1].to) > mvLast[1].y
  /\ mvX = mvLast[1].to
  /\ mvLast[1].to \div MV_SCALE # mvLast[1].from \div MV_SCALE

\* C35: the jump impulse is given only in a tick in which the viewpoint rests
\* at terrain height + 1.8, and the request is used up by it
C35_JumpOnlyGrounded ==
  (mvLast # << >> /\ mvLast[1].impulse) => (mvLast[1].resting /\ ~jump)


\* ------------------------------- BlockInteraction: the same-coordinate guard
\* Date.now() advances by half the guard's second or by all of it, for one
\* guard window and a half
AdvanceClockBy ==
  /\ \E d \in {DOUBLE_FIRE_MS \div 2, DOUBLE_FIRE_MS} :
       /\ dateNow + d <= BiEpoch + DOUBLE_FIRE_MS + DOUBLE_FIRE_MS \div 2
       /\ dateNow' = dateNow + d
  /\ UNCHANGED << mounted, targetedBlock, lastInteraction, lastActionKey,
                  biCalls, rcTargetedBlock, lastInteractionTime, rcCalls >>
  /\ UNCHANGED << worldVars, syncVars, pfVars, tgVars, moreVars >>

GuardInit ==
  /\ noise2D \in WorldTerrains
  /\ mounted = "BlockInteraction"
  /\ initialChanges = << >>
  /\ WorldConstructed
  /\ PfIdle
  /\ TgIdle
  /\ BiUnused
  /\ MoreIdle

GuardNext ==
  \/ BiUseFrame
  \/ BiRequest
  \/ AdvanceClockBy
  \/ MoveCameraWithin(ReachCamPositions)

GuardSpec == GuardInit /\ [][GuardNext]_vars

\* the keys a request on the current target can have
TargetKeys ==
  IF targetedBlock = << >> THEN { }
  ELSE LET block == targetedBlock[1].block
           dir == faceDirections[targetedBlock[1].face + 1]
       IN  { getActionKey("break", block.x, block.y, block.z),
             getActionKey("place", block.x + dir[1], block.y + dir[2],
                          block.z + dir[3]) }

\* this step is a request that got past the target, cooldown and reach tests
PastCooldownAndReach == lastInteraction' # lastInteraction

\* C36: a request at the coordinate of the last accepted action, with a
\* target in reach and the cooldown over, is accepted again when 1 second or
\* more has passed since that action
C36_GuardExpires ==
  [][ (/\ PastCooldownAndReach
       /\ biCalls # << >>
       /\ lastActionKey \in TargetKeys
       /\ dateNow - Newest(biCalls).t >= DOUBLE_FIRE_MS)
      => Grows(biCalls, biCalls') ]_vars

\* C37: a request that invokes no callback leaves lastInteraction and the
\* last-action key as they were
C37_RejectedChangesNothing ==
  [][ biCalls' = biCalls
      => /\ lastInteraction' = lastInteraction
         /\ lastActionKey' = lastActionKey ]_vars


\* ----------------------------------------------- World: streaming and render
\* this step is a useFrame call that got past the throttle
IsGatedFrame == FrameGate /\ frameAge' = 0

\* C38: a frame that finds the viewpoint in the chunk recorded last leaves the
\* visible set, the Chunk Store, the rendered collection and the recorded
\* chunk coordinate as they were
C38_SameChunkNoPass ==
  [][ (IsGatedFrame /\ CameraChunk = playerChunkRef)
      => UNCHANGED << visibleChunks, loadedChunks, chunks, playerChunkRef >>
    ]_vars

\* after a pass for another chunk, a frame is due with the viewpoint still in
\* the chunk that pass recorded
C38_Witness ==
  /\ FrameGate
  /\ CameraChunk = playerChunkRef
  /\ playerChunkRef # << 0 \div CHUNK_SIZE, 20 \div CHUNK_SIZE, 0 \div CHUNK_SIZE >>
  /\ chunks # << >>

\* persisted logs that touch two chunks: one change at each tracked cell
RenderLogs ==
  { << >> } \cup { q \in SeqsUpTo(ChangeAlphabet, 2) :
                     Len(q) = 2 /\ CellOf(q[1]) # CellOf(q[2]) }

\* initial generation, streaming passes and the changes effect, in any order,
\* where generateChunk may throw for the lower chunk of the tracked cells
RenderInit ==
  /\ noise2D \in WorldTerrains
  /\ initialChanges \in RenderLogs
  /\ WorldConstructed
  /\ PfIdle
  /\ TgIdle
  /\ BiIdle
  /\ failable = NearFailableChunks
  /\ GenUnused
  /\ OtherIdle

RenderNext ==
  \/ TerrainEffect
  \/ ChangesEffect
  \/ UseFrameSameChunk
  \/ StreamingPass
  \/ Tick
  \/ MoveCamera

RenderSpec == RenderInit /\ [][RenderNext]_vars

RENDER_CHUNK_SIZE == 16

\* JavaScript's a % n: the remainder has the sign of a
JsRemainder(a, n) == IF a >= 0 THEN a % n ELSE -((-a) % n)

\* the group's position plus tempObject.position of the block's instance
InstancePosition(chunk, block) ==
  << chunk.position[1] * RENDER_CHUNK_SIZE
       + JsRemainder(block.x, RENDER_CHUNK_SIZE),
     chunk.position[2] * RENDER_CHUNK_SIZE
       + JsRemainder(block.y, RENDER_CHUNK_SIZE),
     chunk.position[3] * RENDER_CHUNK_SIZE
       + JsRemainder(block.z, RENDER_CHUNK_SIZE) >>

\* C40: every block of every rendered chunk has its instance at the block's
\* world coordinate
C40_InstanceAtBlock ==
  \A i \in DOMAIN chunks :
    \A n \in DOMAIN chunks[i].blocks :
      LET block == chunks[i].blocks[n]
      IN  InstancePosition(chunks[i], block) = << block.x, block.y, block.z >>

====
